---- MODULE Spec2Model ----
(***************************************************************************)
(* Verification model of the two stateful subsystems of the repository:    *)
(*   - the Agent Trace Reducer (web/context/AgentTraceContext.tsx): the    *)
(*     React provider state currentTrace / allTraces / recentActions and   *)
(*     the handlers that change it (push-channel events, manual API);      *)
(*   - the Offline Cache Controller (the service worker, unnamed/part_000):*)
(*     the cache stores and the four fetch strategies.                     *)
(*                                                                         *)
(* Encoding of JavaScript values:                                          *)
(*   undefined            the string "undefined" (Undefined)               *)
(*   null (currentTrace)  the record Null                                  *)
(*   strings              strings; JSON.stringify(s) adds the quotes       *)
(*   duration_ms          an opaque token (the code only copies it)        *)
(* Fields the handlers only copy and no property reads (session_id,        *)
(* started_at, completed_at, timestamp, metadata, action text, input) are  *)
(* left out of the records.                                                *)
(***************************************************************************)
EXTENDS Integers, Sequences, FiniteSets, TLC

VARIABLES
    \* ---- Agent Trace Reducer (AgentTraceProvider state)
    currentTrace,       \* useState<AgentTrace | null>(null)
    allTraces,          \* useState<AgentTrace[]>([])
    recentActions,      \* useState<AgentAction[]>([])
    isTraceVisible,     \* useState(false)
    isMinimized,        \* useState(false)
    actionIdCounter,    \* useRef(0)
    now,                \* Date.now(), a clock that only moves forward
    \* ---- history variables (not program state)
    nEvents,            \* number of handler invocations so far
    last,               \* the handler that ran last and its key arguments
    closedIds,          \* trace ids currentTrace has carried as completed/error
    \* ---- Offline Cache Controller (the service worker and its CacheStorage)
    swState,            \* lifecycle of the worker: parsed, installed, activated
    caches,             \* names of the existing cache stores, in creation order
    entries,            \* entries[name][url]: the stored response, or NoEntry
    tasks,              \* handlers awaiting their fetch(request)
    bg,                 \* fetchAndCache calls awaiting their fetch(request)
    writes,             \* cache.put calls issued and not yet completed
    outbox,             \* client broadcasts queued behind clients.matchAll()
    inbox,              \* urls of the OFFLINE_PACK_DOWNLOADED messages delivered
    \* ---- history variables of the worker (not program state)
    nReq,               \* number of fetch events so far
    netCalls,           \* number of fetch() calls the worker has made
    reply,              \* what the last settled handler gave to respondWith
    purged,             \* names of the stores the activation deleted
    \* ---- push channel of the Agent Trace Reducer (the effect of the provider)
    socks,              \* every WebSocket created so far, by its state
    wsRef,              \* wsRef.current: index in socks, 0 for null
    pending,            \* connectWebSocket calls due: the effect's, the timers'
    isConnected,        \* useState(false)
    mounted,            \* the provider is mounted (its cleanup has not run)
    attempts,           \* number of connectWebSocket calls so far (history)
    \* ---- the page component ServiceWorkerRegistration (unnamed/part_002)
    pwa                 \* its state hooks, its timers and callbacks, the flag

reducerVars == <<currentTrace, allTraces, recentActions, isTraceVisible,
                 isMinimized, actionIdCounter, now>>
histVars == <<nEvents, last, closedIds>>
swVars == <<swState, caches, entries, tasks, bg, writes, outbox, inbox,
            nReq, netCalls, reply>>
swHist == <<purged>>
wsVars == <<socks, wsRef, pending, isConnected, mounted, attempts>>
pwaVars == <<pwa>>
vars == <<reducerVars, histVars, swVars, swHist, wsVars, pwaVars>>

-----------------------------------------------------------------------------
(* Bounds of the model *)

MaxEvents == 3
MaxClock == 1
MaxAdds == 52
MaxCompletes == 23
MaxRequests == 2
MaxRotationEvents == 1
MaxAttempts == 4
MaxPrompts == 2
MaxUpdates == 1

-----------------------------------------------------------------------------
(* Values *)

Undefined == "undefined"
Null == [null |-> TRUE]

RecentCap == 50
TraceCap == 20

Agents == {"manager", "tutor"}
SrvActionIds == {"a1"}
SrvTraceIds == {"t1"}
ActionStatuses == {"pending", "running", "completed", "error"}
TraceStatuses == {"running", "completed", "error"}
TerminalStatuses == {"completed", "error"}

\* JS truthiness of an optional string: undefined and "" are falsy
Truthy(v) == v # Undefined /\ v # ""

\* JSON.stringify of a string value: the value in double quotes
Stringify(v) == "\"" \o v \o "\""

\* Array.prototype.slice(0, n)
Slice(s, n) == SubSeq(s, 1, IF Len(s) < n THEN Len(s) ELSE n)

\* Array.prototype.map
MapSeq(s, F(_)) == [i \in 1..Len(s) |-> F(s[i])]

\* generateActionId: `action_${Date.now()}_${actionIdCounter.current}` after the
\* increment.  The counter never repeats, so two generated ids are equal exactly
\* when their counters are; the time part is left out of the encoding.
GeneratedActionId == "action_" \o ToString(actionIdCounter + 1)

\* `trace_${Date.now()}`
LocalTraceId == "trace_" \o ToString(now)

\* a || b on optional strings
OrElse(a, b) == IF Truthy(a) THEN a ELSE b

-----------------------------------------------------------------------------
(* Initial state of the reducer: the provider right after mounting *)

ReducerInit ==
    /\ currentTrace = Null
    /\ allTraces = <<>>
    /\ recentActions = <<>>
    /\ isTraceVisible = FALSE
    /\ isMinimized = FALSE
    /\ actionIdCounter = 0
    /\ now = 0
    /\ nEvents = 0
    /\ last = [op |-> "mount", id |-> Undefined]
    /\ closedIds = {}

\* the history variables after a handler ran
Ran(op, id) ==
    /\ nEvents' = nEvents + 1
    /\ last' = [op |-> op, id |-> id]
    /\ closedIds' = IF currentTrace' # Null /\ currentTrace'.status \in TerminalStatuses
                    THEN closedIds \cup {currentTrace'.trace_id}
                    ELSE closedIds
    /\ UNCHANGED <<swVars, swHist, wsVars, pwaVars>>

Tick ==
    /\ now < MaxClock
    /\ now' = now + 1
    /\ UNCHANGED <<currentTrace, allTraces, recentActions, isTraceVisible,
                   isMinimized, actionIdCounter, histVars, swVars, swHist, wsVars,
                   pwaVars>>
-----------------------------------------------------------------------------
(* Agent Trace Reducer: the pieces of handleWebSocketMessage and of the     *)
(* manual API                                                               *)

\* the trace object the trace_start / trace_started / startNewTrace handlers set
FreshTrace(traceId) ==
    [trace_id |-> traceId, status |-> "running", actions |-> <<>>,
     current_agent |-> Undefined, summary |-> Undefined,
     total_duration_ms |-> Undefined]

\* init: one action of the snapshot, mapped to the local shape
InitAction(a) ==
    [id |-> a.id, agent |-> a.agent,
     status |-> IF a.status = "started" THEN "running" ELSE a.status,
     output |-> IF Truthy(a.output) THEN Stringify(a.output) ELSE Undefined,
     duration_ms |-> a.duration_ms]

\* init: the trace built from data.traces[0]
InitTrace(t) ==
    [trace_id |-> t.id,
     status |-> IF t.status = "active" THEN "running" ELSE t.status,
     actions |-> IF "actions" \in DOMAIN t THEN MapSeq(t.actions, InitAction)
                 ELSE <<>>,
     current_agent |-> Undefined, summary |-> Undefined,
     total_duration_ms |-> Undefined]

\* action_start / action_started / agent_action: the new action
NewEventAction(idOpt, agent) ==
    [id |-> IF Truthy(idOpt) THEN idOpt ELSE GeneratedActionId,
     agent |-> agent, status |-> "running", output |-> Undefined,
     duration_ms |-> Undefined]

\* addAction: { ...action, id: generateActionId(), timestamp }
NewManualAction(action) ==
    [id |-> GeneratedActionId, agent |-> action.agent,
     status |-> action.status, output |-> action.output,
     duration_ms |-> action.duration_ms]

\* AppendAction as it would be with the other handlers' `if (!prev) return prev`
AppendActionNoCreate(prev, a, traceIdOpt) ==
    IF prev = Null THEN prev
    ELSE [prev EXCEPT !.current_agent = a.agent, !.actions = Append(@, a)]

\* AppendAction writing the status of a new trace in both branches
AppendActionReopens(prev, a, traceIdOpt) ==
    IF prev = Null
    THEN [trace_id |-> OrElse(traceIdOpt, LocalTraceId), status |-> "running",
          actions |-> <<a>>, current_agent |-> a.agent, summary |-> Undefined,
          total_duration_ms |-> Undefined]
    ELSE [prev EXCEPT !.status = "running", !.current_agent = a.agent,
                      !.actions = Append(@, a)]

\* the setCurrentTrace updater of the action-start handlers and of addAction
AppendAction(prev, a, traceIdOpt) ==
    IF prev = Null
    THEN [trace_id |-> OrElse(traceIdOpt, LocalTraceId), status |-> "running",
          actions |-> <<a>>, current_agent |-> a.agent, summary |-> Undefined,
          total_duration_ms |-> Undefined]
    ELSE [prev EXCEPT !.current_agent = a.agent, !.actions = Append(@, a)]

\* PushRecent without the slice
PushRecentUnbounded(a, prev) == <<a>> \o prev

\* setRecentActions(prev => [newAction, ...prev].slice(0, 50))
PushRecent(a, prev) == Slice(<<a>> \o prev, RecentCap)

\* UpdateStatus with the first comparison against the wrong literal
UpdateStatusMisspelt(s) ==
    IF s = "complete" THEN "completed"
    ELSE IF s = "error" THEN "error"
    ELSE IF s = "streaming" THEN "running" ELSE "running"

\* action_update: the status written for data.status
UpdateStatus(s) ==
    IF s = "completed" THEN "completed"
    ELSE IF s = "error" THEN "error"
    ELSE IF s = "streaming" THEN "running" ELSE "running"

\* action_update: the patch applied to one element of a list
PatchUpdate(a, id, st, out, dur) ==
    IF a.id = id
    THEN [a EXCEPT !.status = UpdateStatus(st),
                   !.output = IF Truthy(out) THEN Stringify(out) ELSE a.output,
                   !.duration_ms = dur]
    ELSE a

\* action_completed: the patch applied to one element of a list
PatchCompleted(a, id, out, dur) ==
    IF a.id = id
    THEN [a EXCEPT !.status = "completed", !.output = out, !.duration_ms = dur]
    ELSE a

\* action_error: the patch applied to one element of currentTrace.actions
PatchError(a, id, err) ==
    IF a.id = id THEN [a EXCEPT !.status = "error", !.output = err] ELSE a

\* updateAction: { ...a, ...updates }
PatchManual(a, id, updates) ==
    IF a.id = id
    THEN [f \in DOMAIN a |-> IF f \in DOMAIN updates THEN updates[f] ELSE a[f]]
    ELSE a

\* trace_complete / trace_completed: the completed trace
CompletedByEvent(prev, summary, dur) ==
    [prev EXCEPT !.status = "completed", !.total_duration_ms = dur,
                 !.summary = summary, !.current_agent = Undefined]

\* completeTrace leaving current_agent as it was
CompletedManuallyKeepsAgent(prev, summary) ==
    [prev EXCEPT !.status = "completed", !.summary = summary]

\* completeTrace: the completed trace
CompletedManually(prev, summary) ==
    [prev EXCEPT !.status = "completed", !.summary = summary,
                 !.current_agent = Undefined]

\* Archive without the slice
ArchiveUnbounded(t, traces) == <<t>> \o traces

\* setAllTraces(traces => [completed, ...traces].slice(0, 20))
Archive(t, traces) == Slice(<<t>> \o traces, TraceCap)

-----------------------------------------------------------------------------
(* Agent Trace Reducer: push-channel events (handleWebSocketMessage)        *)

\* data: the event; its fields traces, and actions of a snapshot trace, may be absent
HasTraces(data) == "traces" \in DOMAIN data /\ Len(data.traces) > 0

EvInit(data) ==
    /\ IF HasTraces(data)
       THEN /\ currentTrace' = InitTrace(data.traces[1])
            /\ isTraceVisible' = TRUE
       ELSE UNCHANGED <<currentTrace, isTraceVisible>>
    /\ UNCHANGED <<allTraces, recentActions, isMinimized, actionIdCounter, now>>
    /\ Ran("init", IF HasTraces(data) THEN data.traces[1].id ELSE Undefined)

\* trace_start / trace_started emptying recentActions with the trace
EvTraceStartClearsRecent(type, traceId) ==
    /\ type \in {"trace_start", "trace_started"}
    /\ currentTrace' = FreshTrace(traceId)
    /\ isTraceVisible' = TRUE
    /\ recentActions' = <<>>
    /\ UNCHANGED <<allTraces, isMinimized, actionIdCounter, now>>
    /\ Ran("trace_start", traceId)

EvTraceStart(type, traceId) ==
    /\ type \in {"trace_start", "trace_started"}
    /\ currentTrace' = FreshTrace(traceId)
    /\ isTraceVisible' = TRUE
    /\ UNCHANGED <<allTraces, recentActions, isMinimized, actionIdCounter, now>>
    /\ Ran("trace_start", traceId)

EvActionStart(type, idOpt, agent, traceIdOpt) ==
    LET newAction == NewEventAction(idOpt, agent) IN
    /\ type \in {"action_start", "action_started", "agent_action"}
    /\ currentTrace' = AppendAction(currentTrace, newAction, traceIdOpt)
    /\ recentActions' = PushRecent(newAction, recentActions)
    /\ isTraceVisible' = TRUE
    /\ actionIdCounter' = IF Truthy(idOpt) THEN actionIdCounter
                          ELSE actionIdCounter + 1
    /\ UNCHANGED <<allTraces, isMinimized, now>>
    /\ Ran("action_start", newAction.id)

EvActionUpdate(id, st, out, dur) ==
    LET P(a) == PatchUpdate(a, id, st, out, dur) IN
    /\ currentTrace' = IF currentTrace = Null THEN currentTrace
                       ELSE [currentTrace EXCEPT !.actions = MapSeq(@, P)]
    /\ recentActions' = MapSeq(recentActions, P)
    /\ UNCHANGED <<allTraces, isTraceVisible, isMinimized, actionIdCounter, now>>
    /\ Ran("action_update", id)

EvActionCompleted(id, out, dur) ==
    LET P(a) == PatchCompleted(a, id, out, dur) IN
    /\ currentTrace' = IF currentTrace = Null THEN currentTrace
                       ELSE [currentTrace EXCEPT !.actions = MapSeq(@, P)]
    /\ recentActions' = MapSeq(recentActions, P)
    /\ UNCHANGED <<allTraces, isTraceVisible, isMinimized, actionIdCounter, now>>
    /\ Ran("action_completed", id)

EvActionError(id, err) ==
    LET P(a) == PatchError(a, id, err) IN
    /\ currentTrace' = IF currentTrace = Null THEN currentTrace
                       ELSE [currentTrace EXCEPT !.actions = MapSeq(@, P)]
    /\ UNCHANGED <<allTraces, recentActions, isTraceVisible, isMinimized,
                   actionIdCounter, now>>
    /\ Ran("action_error", id)

EvTraceComplete(type, summary, dur) ==
    /\ type \in {"trace_complete", "trace_completed"}
    /\ IF currentTrace = Null
       THEN UNCHANGED <<currentTrace, allTraces>>
       ELSE LET completed == CompletedByEvent(currentTrace, summary, dur) IN
            /\ allTraces' = Archive(completed, allTraces)
            /\ currentTrace' = completed
    /\ UNCHANGED <<recentActions, isTraceVisible, isMinimized, actionIdCounter, now>>
    /\ Ran("trace_complete",
           IF currentTrace = Null THEN Undefined ELSE currentTrace.trace_id)

\* any other data.type: the switch has no default branch
EvUnknown ==
    /\ UNCHANGED reducerVars
    /\ Ran("unknown", Undefined)

-----------------------------------------------------------------------------
(* Agent Trace Reducer: manual API                                          *)

StartNewTrace ==
    /\ currentTrace' = FreshTrace(LocalTraceId)
    /\ isTraceVisible' = TRUE
    /\ UNCHANGED <<allTraces, recentActions, isMinimized, actionIdCounter, now>>
    /\ Ran("startNewTrace", LocalTraceId)

\* action: the caller's fields (Omit<AgentAction, "id" | "timestamp">)
AddAction(action) ==
    LET newAction == NewManualAction(action) IN
    /\ currentTrace' = AppendAction(currentTrace, newAction, Undefined)
    /\ recentActions' = PushRecent(newAction, recentActions)
    /\ isTraceVisible' = TRUE
    /\ actionIdCounter' = actionIdCounter + 1
    /\ UNCHANGED <<allTraces, isMinimized, now>>
    /\ Ran("addAction", newAction.id)

UpdateAction(actionId, updates) ==
    LET P(a) == PatchManual(a, actionId, updates) IN
    /\ currentTrace' = IF currentTrace = Null THEN currentTrace
                       ELSE [currentTrace EXCEPT !.actions = MapSeq(@, P)]
    /\ recentActions' = MapSeq(recentActions, P)
    /\ UNCHANGED <<allTraces, isTraceVisible, isMinimized, actionIdCounter, now>>
    /\ Ran("updateAction", actionId)

CompleteTrace(summary) ==
    /\ IF currentTrace = Null
       THEN UNCHANGED <<currentTrace, allTraces>>
       ELSE LET completed == CompletedManually(currentTrace, summary) IN
            /\ allTraces' = Archive(completed, allTraces)
            /\ currentTrace' = completed
    /\ UNCHANGED <<recentActions, isTraceVisible, isMinimized, actionIdCounter, now>>
    /\ Ran("completeTrace",
           IF currentTrace = Null THEN Undefined ELSE currentTrace.trace_id)

\* clearTraces emptying the archive only
ClearTracesArchiveOnly ==
    /\ allTraces' = <<>>
    /\ UNCHANGED <<currentTrace, recentActions, isTraceVisible, isMinimized,
                   actionIdCounter, now>>
    /\ Ran("clearTraces", Undefined)

ClearTraces ==
    /\ allTraces' = <<>>
    /\ recentActions' = <<>>
    /\ UNCHANGED <<currentTrace, isTraceVisible, isMinimized, actionIdCounter, now>>
    /\ Ran("clearTraces", Undefined)

SetTraceVisible(visible) ==
    /\ isTraceVisible' = visible
    /\ UNCHANGED <<currentTrace, allTraces, recentActions, isMinimized,
                   actionIdCounter, now>>
    /\ Ran("setTraceVisible", Undefined)

SetMinimized(minimized) ==
    /\ isMinimized' = minimized
    /\ UNCHANGED <<currentTrace, allTraces, recentActions, isTraceVisible,
                   actionIdCounter, now>>
    /\ Ran("setMinimized", Undefined)

-----------------------------------------------------------------------------
(* Agent Trace Reducer: the push channel (the effect of AgentTraceProvider)  *)
(*                                                                          *)
(* A socket is connecting, open, errored (its error event was delivered,     *)
(* its close event is still to come), closing (close() was called on it) or  *)
(* closed.  Effects run once per mount, as in a production build.            *)

LiveStates == {"connecting", "open"}
UnclosedStates == {"connecting", "open", "errored", "closing"}

\* the provider after its first render: the effect is about to run
WsInit ==
    /\ socks = <<>>
    /\ wsRef = 0
    /\ pending = [effect |-> 1, t3000 |-> 0, t5000 |-> 0]
    /\ isConnected = FALSE
    /\ mounted = TRUE
    /\ attempts = 0

\* a state setter called after the component has unmounted changes nothing
SetIsConnected(v) == isConnected' = IF mounted THEN v ELSE isConnected

\* connectWebSocket, called by the effect (source "effect") or by a timer
\* (sources "t3000", "t5000"); new WebSocket(...) may throw
ConnectWebSocket(source, throws) ==
    /\ pending[source] > 0
    /\ attempts' = attempts + 1
    /\ IF throws
       THEN /\ pending' = [[pending EXCEPT ![source] = @ - 1]
                              EXCEPT !.t5000 = @ + 1]
            /\ UNCHANGED <<socks, wsRef>>
       ELSE /\ pending' = [pending EXCEPT ![source] = @ - 1]
            /\ socks' = Append(socks, "connecting")
            /\ wsRef' = Len(socks) + 1
    /\ UNCHANGED <<isConnected, mounted>>

\* ws.onopen
SocketOpens(i) ==
    /\ socks[i] = "connecting"
    /\ socks' = [socks EXCEPT ![i] = "open"]
    /\ SetIsConnected(TRUE)
    /\ UNCHANGED <<wsRef, pending, mounted, attempts>>

\* ws.onerror with the close event scheduling a second reconnect
SocketErrorsReconnects(i) ==
    /\ socks[i] \in LiveStates
    /\ socks' = [socks EXCEPT ![i] = "errored"]
    /\ pending' = [pending EXCEPT !.t3000 = @ + 1]
    /\ UNCHANGED <<wsRef, isConnected, mounted, attempts>>

\* ws.onerror: a warning is logged; the close event follows
SocketErrors(i) ==
    /\ socks[i] \in LiveStates
    /\ socks' = [socks EXCEPT ![i] = "errored"]
    /\ UNCHANGED <<wsRef, pending, isConnected, mounted, attempts>>

\* ws.onclose without the reconnect timer
SocketClosesNoReconnect(i) ==
    /\ socks[i] \in UnclosedStates
    /\ socks' = [socks EXCEPT ![i] = "closed"]
    /\ SetIsConnected(FALSE)
    /\ UNCHANGED <<wsRef, pending, mounted, attempts>>

\* ws.onclose
SocketCloses(i) ==
    /\ socks[i] \in UnclosedStates
    /\ socks' = [socks EXCEPT ![i] = "closed"]
    /\ SetIsConnected(FALSE)
    /\ pending' = [pending EXCEPT !.t3000 = @ + 1]
    /\ UNCHANGED <<wsRef, mounted, attempts>>

\* the cleanup of the effect, which has run: wsRef.current?.close()
Unmount ==
    /\ mounted
    /\ pending.effect = 0
    /\ mounted' = FALSE
    /\ socks' = IF wsRef # 0 /\ socks[wsRef] \in LiveStates
                THEN [socks EXCEPT ![wsRef] = "closing"]
                ELSE socks
    /\ UNCHANGED <<wsRef, pending, isConnected, attempts>>

ConnectSources == {"effect", "t3000", "t5000"}

\* the other components are left alone by a step of the push channel
ChannelOnly == UNCHANGED <<reducerVars, histVars, swVars, swHist, pwaVars>>

\* a connectWebSocket call that is due is made
ConnectionAttempt ==
    \E source \in ConnectSources, throws \in BOOLEAN :
        attempts < MaxAttempts /\ ConnectWebSocket(source, throws) /\ ChannelOnly

-----------------------------------------------------------------------------
(* Inputs the environment may supply                                        *)

ActionStartTypes == {"action_start", "action_started", "agent_action"}
TraceStartTypes == {"trace_start", "trace_started"}
TraceCompleteTypes == {"trace_complete", "trace_completed"}

EventActionIds == SrvActionIds \cup {Undefined}
EventTraceIds == SrvTraceIds \cup {Undefined}
EventStatuses == {"completed", "error", "streaming"}
\* the optional fields of an event: all absent, or all present
EventPayloads == {[output |-> Undefined, duration_ms |-> Undefined],
                  [output |-> "o1", duration_ms |-> "250"]}
EventErrors == {"boom"}
EventSummaries == {[summary |-> Undefined, duration_ms |-> Undefined],
                   [summary |-> "done", duration_ms |-> "900"]}
ManualSummaries == {Undefined, "done"}

\* init events: data.traces absent, empty, or one snapshot trace, whose actions
\* are absent, empty, or one action
SnapshotActions ==
    {<<>>} \cup
    {<<[id |-> "a1", agent |-> "manager", status |-> s, output |-> o,
        duration_ms |-> Undefined]>> : s \in {"started", "completed"},
                                       o \in {"o1"}}
SnapshotStatuses == {"active", "started", "completed"}
InitEvents ==
    {[type |-> "init"], [type |-> "init", traces |-> <<>>]} \cup
    {[type |-> "init", traces |-> <<[id |-> "t1", status |-> s]>>] :
        s \in SnapshotStatuses} \cup
    {[type |-> "init", traces |-> <<[id |-> "t1", status |-> "active",
                                     actions |-> acts]>>] : acts \in SnapshotActions}

ManualActions ==
    {[agent |-> g, status |-> s, output |-> Undefined, duration_ms |-> Undefined] :
        g \in Agents, s \in {"running", "pending"}}

ManualUpdates ==
    {[status |-> s] : s \in ActionStatuses} \cup
    {[status |-> "completed", output |-> "o2", duration_ms |-> "500"]}

\* ids a caller of the manual API can hold: those of actions in the state
KnownActionIds ==
    {recentActions[i].id : i \in 1..Len(recentActions)} \cup
    (IF currentTrace = Null THEN {}
     ELSE {currentTrace.actions[i].id : i \in 1..Len(currentTrace.actions)})

-----------------------------------------------------------------------------
(* Offline Cache Controller: names, requests, responses                     *)
(*                                                                          *)
(* A URL path is a string; the model writes it as the sequence of its      *)
(* pieces, separators included: "/api/v1/chat" is                            *)
(* <<"/", "api", "/", "v1", "/", "chat">>, so that startsWith is the prefix   *)
(* order on sequences and includes is the search of a contiguous run.  A     *)
(* response is its status, its body and its content type; the network        *)
(* serves bodies v1 and v2.                                                  *)

CACHE_NAME == "syncora-v1"
DYNAMIC_CACHE == "syncora-dynamic-v1"
OFFLINE_PACKS_CACHE == "syncora-offline-packs-v1"
OFFLINE_URL == <<"/", "offline.html">>

CORE_ASSETS ==
    {<<"/">>, <<"/", "offline.html">>, <<"/", "manifest.json">>,
     <<"/", "icons", "/", "icon-192x192.png">>,
     <<"/", "icons", "/", "icon-512x512.png">>}

CACHEABLE_API_PATTERNS ==
    {<<"/", "api", "/", "v1", "/", "curriculum">>,
     <<"/", "api", "/", "v1", "/", "offline", "/", "packs">>,
     <<"/", "api", "/", "v1", "/", "offline", "/", "prebuilt">>}

CacheNames == {CACHE_NAME, DYNAMIC_CACHE, OFFLINE_PACKS_CACHE}

\* stores of an earlier version of the worker
StaleNames == {"syncora-v0", "syncora-dynamic-v0"}
StoreNames == CacheNames \cup StaleNames

Req(method, path, mode, destination) ==
    [method |-> method, path |-> path, mode |-> mode, destination |-> destination]
ApiCurriculum ==
    Req("GET", <<"/", "api", "/", "v1", "/", "curriculum", "/", "grade9">>, "cors", "")
ApiChat ==
    Req("GET", <<"/", "api", "/", "v1", "/", "chat", "/", "history">>, "cors", "")
PackDownload ==
    Req("GET", <<"/", "packs", "/", "offline", "/", "download", "/", "math">>, "cors", "")
NavRoot == Req("GET", <<"/">>, "navigate", "document")
Script == Req("GET", <<"/", "app.js">>, "no-cors", "script")
Icon == Req("GET", <<"/", "icons", "/", "icon-192x192.png">>, "no-cors", "image")
PostChat ==
    Req("POST", <<"/", "api", "/", "v1", "/", "chat", "/", "history">>, "cors", "")
Requests ==
    {ApiCurriculum, ApiChat, PackDownload, NavRoot, Script, Icon, PostChat}

\* a pack download served under the API prefix
ApiPackDownload ==
    Req("GET", <<"/", "api", "/", "v1", "/", "offline", "/", "download", "/", "math">>,
        "cors", "")
PackRequests == {PackDownload, ApiPackDownload}

\* a navigation to a page outside the core manifest
NavDashboard == Req("GET", <<"/", "dashboard">>, "navigate", "document")
NavRequests == {NavRoot, NavDashboard}

\* every combination of method, path and mode the fetch listener tells apart
Methods == {"GET", "POST", "HEAD"}
Modes == {"navigate", "cors", "no-cors"}
ClassifyPaths ==
    {ApiChat.path, ApiPackDownload.path, PackDownload.path, Script.path, NavRoot.path}
ClassifyRequests ==
    {Req(method, path, mode, "") :
        method \in Methods, path \in ClassifyPaths, mode \in Modes}

Urls == CORE_ASSETS \cup {r.path : r \in Requests \cup PackRequests \cup NavRequests}

NoEntry == [none |-> TRUE]
Bodies == {"v1", "v2"}
NetOk(body) == [status |-> 200, body |-> body, ctype |-> "network"]
NetError == [status |-> 500, body |-> "error", ctype |-> "network"]
NetResponses == {NetOk(b) : b \in Bodies} \cup {NetError}

\* Response.ok
Ok(resp) == resp.status >= 200 /\ resp.status <= 299

\* the JSON body handleApiRequest synthesizes
OfflineJson == [status |-> 503, body |-> "offline-json", ctype |-> "application/json"]
\* new Response(getOfflineHTML(), ...)
FallbackHtml == [status |-> 200, body |-> "offline-html", ctype |-> "text/html"]
\* the inline SVG of handleStaticAssets (a Response without init has status 200)
Placeholder == [status |-> 200, body |-> "offline-svg", ctype |-> "image/svg+xml"]

Range(seq) == {seq[i] : i \in 1..Len(seq)}
IsPrefix(p, q) == Len(p) <= Len(q) /\ SubSeq(q, 1, Len(p)) = p

\* url.pathname.startsWith('/api/')
StartsWithApi(path) == IsPrefix(<<"/", "api", "/">>, path)

\* url.pathname.includes('/offline/download')
HasDownloadMarker(path) ==
    \E i \in 1..(Len(path) - 3) :
        SubSeq(path, i, i + 3) = <<"/", "offline", "/", "download">>

\* isCacheableApi with no allowlist check at all
IsCacheableApiAlways(path) == TRUE

\* isCacheableApi with an empty allowlist
IsCacheableApiNever(path) == FALSE

IsCacheableApi(path) == \E pattern \in CACHEABLE_API_PATTERNS : IsPrefix(pattern, path)

\* the fetch listener: which handler, if any, is given the request
\* the fetch listener with the offline-pack rule ahead of the API rule
ClassifyMarkerFirst(request) ==
    IF request.method # "GET" THEN "none"
    ELSE IF HasDownloadMarker(request.path) THEN "pack"
    ELSE IF StartsWithApi(request.path) THEN "api"
    ELSE IF request.mode = "navigate" THEN "nav"
    ELSE "static"

\* the fetch listener: which handler, if any, is given to respondWith
Classify(request) ==
    IF request.method # "GET" THEN "none"
    ELSE IF StartsWithApi(request.path) THEN "api"
    ELSE IF HasDownloadMarker(request.path) THEN "pack"
    ELSE IF request.mode = "navigate" THEN "nav"
    ELSE "static"

\* caches.match(url): the first hit over the stores in creation order
RECURSIVE MatchFrom(_, _)
MatchFrom(names, url) ==
    IF names = <<>> THEN NoEntry
    ELSE IF entries[Head(names)][url] # NoEntry THEN entries[Head(names)][url]
    ELSE MatchFrom(Tail(names), url)
CachesMatch(url) == MatchFrom(caches, url)

\* caches.open(name): the store is created when it does not exist
Opened(name) == IF name \in Range(caches) THEN caches ELSE Append(caches, name)

RECURSIVE Without(_, _)
Without(names, gone) ==
    IF names = <<>> THEN <<>>
    ELSE IF Head(names) \in gone THEN Without(Tail(names), gone)
    ELSE <<Head(names)>> \o Without(Tail(names), gone)

EmptyStore == [u \in Urls |-> NoEntry]

\* what a store left behind by an earlier session holds
LeftStore == [u \in Urls |-> IF u = <<"/">> THEN NetOk("v2") ELSE NoEntry]

\* the worker script evaluated, with the stores the origin already has
SwInitWith(stores) ==
    /\ swState = "parsed"
    /\ caches = stores
    /\ entries = [n \in StoreNames |->
                    IF n \in Range(stores) THEN LeftStore ELSE EmptyStore]
    /\ tasks = {}
    /\ bg = {}
    /\ writes = {}
    /\ outbox = {}
    /\ inbox = {}
    /\ nReq = 0
    /\ netCalls = 0
    /\ reply = [id |-> 0, url |-> <<"/">>, handler |-> "none", kind |-> "none",
                from |-> "none", resp |-> NoEntry]
    /\ purged = {}

\* the first installation on an origin without stores
SwInit == SwInitWith(<<>>)

\* what a handler hands to respondWith
Responded(t, from, resp) ==
    [id |-> t.id, url |-> t.req.path, handler |-> t.handler, kind |-> "response",
     from |-> from, resp |-> resp]
Rejected(t) ==
    [id |-> t.id, url |-> t.req.path, handler |-> t.handler, kind |-> "rejected",
     from |-> "none", resp |-> NoEntry]

\* const cache = await caches.open(name); cache.put(request, response.clone())
\* the put is not awaited: it completes in a later step (PutCompletes)
Put(name, t, resp) ==
    /\ caches' = Opened(name)
    /\ writes' = writes \cup {[cache |-> name, url |-> t.req.path, resp |-> resp,
                               id |-> t.id]}

\* caches.delete of the stores named: a put still under way on a deleted store
\* lands in a store no lookup can reach any more
DeleteStores(gone) ==
    /\ caches' = Without(caches, gone)
    /\ entries' = [n \in StoreNames |-> IF n \in gone THEN EmptyStore ELSE entries[n]]
    /\ writes' = {w \in writes : w.cache \notin gone}

-----------------------------------------------------------------------------
(* Offline Cache Controller: lifecycle                                      *)

\* install: caches.open(CACHE_NAME), then cache.addAll(CORE_ASSETS), which adds
\* all the assets or none; the catch at the end of the chain settles waitUntil
\* either way
Install(allFetched) ==
    /\ swState = "parsed"
    /\ swState' = "installed"
    /\ caches' = Opened(CACHE_NAME)
    /\ entries' = IF allFetched
                  THEN [entries EXCEPT ![CACHE_NAME] =
                          [u \in Urls |-> IF u \in CORE_ASSETS THEN NetOk("v1")
                                          ELSE entries[CACHE_NAME][u]]]
                  ELSE entries
    /\ UNCHANGED <<tasks, bg, writes, outbox, inbox, nReq, netCalls, reply>>

\* activate deleting every store but the core one
ActivateKeepsCoreOnly ==
    /\ swState = "installed"
    /\ swState' = "activated"
    /\ DeleteStores(Range(caches) \ {CACHE_NAME})
    /\ UNCHANGED <<tasks, bg, outbox, inbox, nReq, netCalls, reply>>

\* activate: every store with a name outside the three current names is deleted
Activate ==
    /\ swState = "installed"
    /\ swState' = "activated"
    /\ DeleteStores(Range(caches) \ CacheNames)
    /\ UNCHANGED <<tasks, bg, outbox, inbox, nReq, netCalls, reply>>

-----------------------------------------------------------------------------
(* Offline Cache Controller: the fetch listener and the four strategies     *)

\* handleStaticAssets that serves the cached copy and never refreshes it
StaticLookupNoRefresh(t) ==
    LET cachedResponse == CachesMatch(t.req.path) IN
    IF cachedResponse # NoEntry
    THEN /\ reply' = Responded(t, "cache", cachedResponse)
         /\ UNCHANGED <<tasks, bg, netCalls>>
    ELSE /\ tasks' = tasks \cup {t}
         /\ netCalls' = netCalls + 1
         /\ UNCHANGED <<bg, reply>>

\* handleStaticAssets up to its first return or fetch: on a hit the cached
\* response is returned and fetchAndCache is left running, on a miss the
\* handler awaits fetch(request)
StaticLookup(t) ==
    LET cachedResponse == CachesMatch(t.req.path) IN
    IF cachedResponse # NoEntry
    THEN /\ bg' = bg \cup {t}
         /\ netCalls' = netCalls + 1
         /\ reply' = Responded(t, "cache", cachedResponse)
         /\ UNCHANGED tasks
    ELSE /\ tasks' = tasks \cup {t}
         /\ netCalls' = netCalls + 1
         /\ UNCHANGED <<bg, reply>>

\* the fetch listener
OnFetch(request) ==
    LET t == [id |-> nReq + 1, req |-> request, handler |-> Classify(request)] IN
    /\ swState = "activated"
    /\ nReq' = nReq + 1
    /\ IF t.handler = "none"
       THEN /\ reply' = [id |-> t.id, url |-> request.path, handler |-> "none",
                         kind |-> "passthrough", from |-> "none", resp |-> NoEntry]
            /\ UNCHANGED <<tasks, bg, netCalls>>
       ELSE IF t.handler = "static"
       THEN StaticLookup(t)
       ELSE /\ tasks' = tasks \cup {t}
            /\ netCalls' = netCalls + 1
            /\ UNCHANGED <<bg, reply>>
    /\ UNCHANGED <<swState, caches, entries, writes, outbox, inbox>>

\* handleApiRequest: fetch(request) resolved
ApiResolved(t, response) ==
    /\ t \in tasks /\ t.handler = "api"
    /\ tasks' = tasks \ {t}
    /\ IF Ok(response) /\ IsCacheableApi(t.req.path)
       THEN Put(DYNAMIC_CACHE, t, response)
       ELSE UNCHANGED <<caches, writes>>
    /\ reply' = Responded(t, "network", response)
    /\ UNCHANGED <<swState, entries, bg, outbox, inbox, nReq, netCalls>>

\* handleApiRequest: fetch(request) rejected
\* handleApiRequest whose catch throws again when no store has the request
ApiRejectedRethrows(t) ==
    LET cachedResponse == CachesMatch(t.req.path) IN
    /\ t \in tasks /\ t.handler = "api"
    /\ tasks' = tasks \ {t}
    /\ reply' = IF cachedResponse # NoEntry THEN Responded(t, "cache", cachedResponse)
                ELSE Rejected(t)
    /\ UNCHANGED <<swState, caches, entries, bg, writes, outbox, inbox, nReq, netCalls>>

ApiRejected(t) ==
    LET cachedResponse == CachesMatch(t.req.path) IN
    /\ t \in tasks /\ t.handler = "api"
    /\ tasks' = tasks \ {t}
    /\ reply' = IF cachedResponse # NoEntry THEN Responded(t, "cache", cachedResponse)
                ELSE Responded(t, "synth", OfflineJson)
    /\ UNCHANGED <<swState, caches, entries, bg, writes, outbox, inbox, nReq, netCalls>>

\* handleNavigationRequest: fetch(request) resolved
\* handleNavigationRequest answering a response that is not ok from the cache
NavResolvedFallsBack(t, response) ==
    LET cachedResponse == CachesMatch(t.req.path) IN
    /\ t \in tasks /\ t.handler = "nav"
    /\ tasks' = tasks \ {t}
    /\ IF Ok(response)
       THEN Put(DYNAMIC_CACHE, t, response)
       ELSE UNCHANGED <<caches, writes>>
    /\ reply' = IF ~Ok(response) /\ cachedResponse # NoEntry
                THEN Responded(t, "cache", cachedResponse)
                ELSE Responded(t, "network", response)
    /\ UNCHANGED <<swState, entries, bg, outbox, inbox, nReq, netCalls>>

NavResolved(t, response) ==
    /\ t \in tasks /\ t.handler = "nav"
    /\ tasks' = tasks \ {t}
    /\ IF Ok(response)
       THEN Put(DYNAMIC_CACHE, t, response)
       ELSE UNCHANGED <<caches, writes>>
    /\ reply' = Responded(t, "network", response)
    /\ UNCHANGED <<swState, entries, bg, outbox, inbox, nReq, netCalls>>

\* handleNavigationRequest with the catch block of handleOfflinePackDownload
NavRejectedRethrows(t) ==
    LET cachedResponse == CachesMatch(t.req.path) IN
    /\ t \in tasks /\ t.handler = "nav"
    /\ tasks' = tasks \ {t}
    /\ reply' = IF cachedResponse # NoEntry THEN Responded(t, "cache", cachedResponse)
                ELSE Rejected(t)
    /\ UNCHANGED <<swState, caches, entries, bg, writes, outbox, inbox, nReq, netCalls>>

\* handleNavigationRequest: fetch(request) rejected
NavRejected(t) ==
    LET cachedResponse == CachesMatch(t.req.path)
        offlineResponse == CachesMatch(OFFLINE_URL) IN
    /\ t \in tasks /\ t.handler = "nav"
    /\ tasks' = tasks \ {t}
    /\ reply' = IF cachedResponse # NoEntry THEN Responded(t, "cache", cachedResponse)
                ELSE IF offlineResponse # NoEntry
                THEN Responded(t, "cache", offlineResponse)
                ELSE Responded(t, "synth", FallbackHtml)
    /\ UNCHANGED <<swState, caches, entries, bg, writes, outbox, inbox, nReq, netCalls>>

\* handleStaticAssets: fetch(request) resolved
StaticResolved(t, response) ==
    /\ t \in tasks /\ t.handler = "static"
    /\ tasks' = tasks \ {t}
    /\ IF Ok(response)
       THEN Put(DYNAMIC_CACHE, t, response)
       ELSE UNCHANGED <<caches, writes>>
    /\ reply' = Responded(t, "network", response)
    /\ UNCHANGED <<swState, entries, bg, outbox, inbox, nReq, netCalls>>

\* handleStaticAssets answering with the placeholder whatever the destination
StaticRejectedPlaceholderForAll(t) ==
    /\ t \in tasks /\ t.handler = "static"
    /\ tasks' = tasks \ {t}
    /\ reply' = Responded(t, "synth", Placeholder)
    /\ UNCHANGED <<swState, caches, entries, bg, writes, outbox, inbox, nReq, netCalls>>

\* handleStaticAssets: fetch(request) rejected
StaticRejected(t) ==
    /\ t \in tasks /\ t.handler = "static"
    /\ tasks' = tasks \ {t}
    /\ reply' = IF t.req.destination = "image" THEN Responded(t, "synth", Placeholder)
                ELSE Rejected(t)
    /\ UNCHANGED <<swState, caches, entries, bg, writes, outbox, inbox, nReq, netCalls>>

\* handleOfflinePackDownload writing to the store of the other strategies
PackResolvedIntoDynamic(t, response) ==
    /\ t \in tasks /\ t.handler = "pack"
    /\ tasks' = tasks \ {t}
    /\ IF Ok(response)
       THEN /\ Put(DYNAMIC_CACHE, t, response)
            /\ outbox' = outbox \cup {[url |-> t.req.path, id |-> t.id]}
       ELSE UNCHANGED <<caches, writes, outbox>>
    /\ reply' = Responded(t, "network", response)
    /\ UNCHANGED <<swState, entries, bg, inbox, nReq, netCalls>>

\* handleOfflinePackDownload: fetch(request) resolved
PackResolved(t, response) ==
    /\ t \in tasks /\ t.handler = "pack"
    /\ tasks' = tasks \ {t}
    /\ IF Ok(response)
       THEN /\ Put(OFFLINE_PACKS_CACHE, t, response)
            /\ outbox' = outbox \cup {[url |-> t.req.path, id |-> t.id]}
       ELSE UNCHANGED <<caches, writes, outbox>>
    /\ reply' = Responded(t, "network", response)
    /\ UNCHANGED <<swState, entries, bg, inbox, nReq, netCalls>>

\* handleOfflinePackDownload: fetch(request) rejected
PackRejected(t) ==
    LET cachedResponse == CachesMatch(t.req.path) IN
    /\ t \in tasks /\ t.handler = "pack"
    /\ tasks' = tasks \ {t}
    /\ reply' = IF cachedResponse # NoEntry THEN Responded(t, "cache", cachedResponse)
                ELSE Rejected(t)
    /\ UNCHANGED <<swState, caches, entries, bg, writes, outbox, inbox, nReq, netCalls>>

\* fetchAndCache: fetch(request) resolved
\* fetchAndCache storing whatever the network answered
BackgroundResolvedStoresAll(t, response) ==
    /\ t \in bg
    /\ bg' = bg \ {t}
    /\ Put(DYNAMIC_CACHE, t, response)
    /\ UNCHANGED <<swState, entries, tasks, outbox, inbox, nReq, netCalls, reply>>

BackgroundResolved(t, response) ==
    /\ t \in bg
    /\ bg' = bg \ {t}
    /\ IF Ok(response)
       THEN Put(DYNAMIC_CACHE, t, response)
       ELSE UNCHANGED <<caches, writes>>
    /\ UNCHANGED <<swState, entries, tasks, outbox, inbox, nReq, netCalls, reply>>

\* fetchAndCache: fetch(request) rejected; the catch block is empty
BackgroundRejected(t) ==
    /\ t \in bg
    /\ bg' = bg \ {t}
    /\ UNCHANGED <<swState, caches, entries, tasks, writes, outbox, inbox, nReq,
                   netCalls, reply>>

\* a cache.put that leaves an entry the store already holds for the url
PutCompletesKeepsFirst(w) ==
    /\ w \in writes
    /\ writes' = writes \ {w}
    /\ entries' = IF w.cache \in Range(caches) /\ entries[w.cache][w.url] = NoEntry
                  THEN [entries EXCEPT ![w.cache][w.url] = w.resp]
                  ELSE entries
    /\ UNCHANGED <<swState, caches, tasks, bg, outbox, inbox, nReq, netCalls, reply>>

\* a cache.put completes: the entry replaces whatever the store held for the url
PutCompletes(w) ==
    /\ w \in writes
    /\ writes' = writes \ {w}
    /\ entries' = IF w.cache \in Range(caches)
                  THEN [entries EXCEPT ![w.cache][w.url] = w.resp]
                  ELSE entries
    /\ UNCHANGED <<swState, caches, tasks, bg, outbox, inbox, nReq, netCalls, reply>>

\* clients.matchAll() resolved: the message is posted to the clients
Broadcast(m) ==
    /\ m \in outbox
    /\ outbox' = outbox \ {m}
    /\ inbox' = inbox \cup {m.url}
    /\ UNCHANGED <<swState, caches, entries, tasks, bg, writes, nReq, netCalls, reply>>

-----------------------------------------------------------------------------
(* Offline Cache Controller: control channel                                *)

\* a cacheContent call keeps the Cache object it opened: once the dynamic store
\* is deleted, the puts of that call land in a store no lookup can reach
Orphaned(ts, gone) ==
    {IF t.handler = "content" /\ DYNAMIC_CACHE \in gone
     THEN [t EXCEPT !.handle = FALSE] ELSE t : t \in ts}

\* clearCache deleting every store whatever the name given
ClearCacheEverything(cacheName) ==
    LET gone == Range(caches) IN
    /\ swState # "parsed"
    /\ DeleteStores(gone)
    /\ tasks' = Orphaned(tasks, gone)
    /\ UNCHANGED <<swState, bg, outbox, inbox, nReq, netCalls, reply>>

\* CLEAR_CACHE: clearCache(payload)
ClearCache(cacheName) ==
    LET gone == IF Truthy(cacheName) THEN {cacheName} ELSE Range(caches) IN
    /\ swState # "parsed"
    /\ DeleteStores(gone)
    /\ tasks' = Orphaned(tasks, gone)
    /\ UNCHANGED <<swState, bg, outbox, inbox, nReq, netCalls, reply>>

\* cacheContent opening a store under the name of an earlier version
CacheContentIntoStale(msg) ==
    /\ swState # "parsed"
    /\ IF "payload" \notin DOMAIN msg
       THEN UNCHANGED <<caches, tasks, nReq, netCalls>>
       ELSE /\ caches' = Opened("syncora-dynamic-v0")
            /\ UNCHANGED <<tasks, nReq, netCalls>>
    /\ UNCHANGED <<swState, entries, bg, writes, outbox, inbox, reply>>

\* the cacheContent call at the fetch of its next url
ContentTask(id, urls, handle) ==
    [id |-> id, req |-> Req("GET", Head(urls), "cors", ""), handler |-> "content",
     rest |-> Tail(urls), handle |-> handle]

\* !urls || !Array.isArray(urls): the payload is absent, or it is a value of
\* another kind (a message says so in its field notArray)
NoUrlList(msg) == "payload" \notin DOMAIN msg \/ "notArray" \in DOMAIN msg

\* CACHE_CONTENT: cacheContent(payload) up to its first fetch; a payload that
\* is no array returns at once
CacheContent(msg) ==
    /\ swState # "parsed"
    /\ IF NoUrlList(msg)
       THEN UNCHANGED <<caches, tasks, nReq, netCalls>>
       ELSE /\ caches' = Opened(DYNAMIC_CACHE)
            /\ IF msg.payload = <<>>
               THEN UNCHANGED <<tasks, nReq, netCalls>>
               ELSE /\ tasks' = tasks \cup {ContentTask(nReq + 1, msg.payload, TRUE)}
                    /\ nReq' = nReq + 1
                    /\ netCalls' = netCalls + 1
    /\ UNCHANGED <<swState, entries, bg, writes, outbox, inbox, reply>>

\* cacheContent going on to its next url, if any
ContentGoesOn(t) ==
    /\ tasks' = (tasks \ {t}) \cup
                 (IF t.rest = <<>> THEN {} ELSE {ContentTask(t.id, t.rest, t.handle)})
    /\ netCalls' = IF t.rest = <<>> THEN netCalls ELSE netCalls + 1

\* cacheContent: fetch(url) resolved; the put is awaited
ContentResolved(t, response) ==
    /\ t \in tasks /\ t.handler = "content"
    /\ entries' = IF Ok(response) /\ t.handle
                  THEN [entries EXCEPT ![DYNAMIC_CACHE][t.req.path] = response]
                  ELSE entries
    /\ ContentGoesOn(t)
    /\ UNCHANGED <<swState, caches, bg, writes, outbox, inbox, nReq, reply>>

\* cacheContent giving up the rest of the list at the first fetch that fails
ContentRejectedGivesUp(t) ==
    /\ t \in tasks /\ t.handler = "content"
    /\ tasks' = tasks \ {t}
    /\ UNCHANGED <<swState, caches, entries, bg, writes, outbox, inbox, nReq, reply,
                   netCalls>>

\* cacheContent: fetch(url) rejected; the failure is logged
ContentRejected(t) ==
    /\ t \in tasks /\ t.handler = "content"
    /\ ContentGoesOn(t)
    /\ UNCHANGED <<swState, caches, entries, bg, writes, outbox, inbox, nReq, reply>>

\* SKIP_WAITING: self.skipWaiting(); the worker may activate at once, which
\* Activate allows in every installed state
SkipWaiting ==
    /\ swState # "parsed"
    /\ UNCHANGED swVars

\* GET_CACHE_SIZE: the estimate, or null without navigator.storage.estimate, is
\* posted to the sender
GetCacheSize(size) ==
    /\ swState # "parsed"
    /\ inbox' = inbox \cup {<<"CACHE_SIZE", size>>}
    /\ UNCHANGED <<swState, caches, entries, tasks, bg, writes, outbox, nReq, netCalls,
                   reply>>

\* the control messages a page sends
ContentMessages ==
    {[type |-> "CACHE_CONTENT"],
     [type |-> "CACHE_CONTENT", payload |-> <<>>],
     [type |-> "CACHE_CONTENT", payload |-> <<Script.path>>, notArray |-> TRUE],
     [type |-> "CACHE_CONTENT", payload |-> <<Script.path>>],
     [type |-> "CACHE_CONTENT", payload |-> <<ApiChat.path, Script.path>>]}
ClearMessages == StoreNames \cup {Undefined}
CacheSizes == {"null", "estimate"}

-----------------------------------------------------------------------------
(* The reducer under every event and every manual call                      *)

EventStep ==
    \/ \E data \in InitEvents : nEvents < MaxEvents /\ EvInit(data)
    \/ \E type \in TraceStartTypes, t \in EventTraceIds :
          nEvents < MaxEvents /\ EvTraceStart(type, t)
    \/ \E type \in ActionStartTypes, i \in EventActionIds, g \in Agents,
          t \in EventTraceIds : nEvents < MaxEvents /\ EvActionStart(type, i, g, t)
    \/ \E i \in SrvActionIds \cup KnownActionIds, st \in EventStatuses,
          d \in EventPayloads :
          nEvents < MaxEvents /\ EvActionUpdate(i, st, d.output, d.duration_ms)
    \/ \E i \in SrvActionIds \cup KnownActionIds, d \in EventPayloads :
          nEvents < MaxEvents /\ EvActionCompleted(i, d.output, d.duration_ms)
    \/ \E i \in SrvActionIds \cup KnownActionIds, err \in EventErrors :
          nEvents < MaxEvents /\ EvActionError(i, err)
    \/ \E type \in TraceCompleteTypes, d \in EventSummaries :
          nEvents < MaxEvents /\ EvTraceComplete(type, d.summary, d.duration_ms)
    \/ nEvents < MaxEvents /\ EvUnknown

ManualStep ==
    \/ nEvents < MaxEvents /\ StartNewTrace
    \/ \E a \in ManualActions : nEvents < MaxEvents /\ AddAction(a)
    \/ \E i \in KnownActionIds, u \in ManualUpdates :
          nEvents < MaxEvents /\ UpdateAction(i, u)
    \/ \E s \in ManualSummaries : nEvents < MaxEvents /\ CompleteTrace(s)
    \/ nEvents < MaxEvents /\ ClearTraces
    \/ \E b \in BOOLEAN : nEvents < MaxEvents /\ SetTraceVisible(b)
    \/ \E b \in BOOLEAN : nEvents < MaxEvents /\ SetMinimized(b)

-----------------------------------------------------------------------------
(* The page component ServiceWorkerRegistration (unnamed/part_002): the     *)
(* install prompt, the update banner and the reload it starts.              *)
(* pwa is the record of                                                     *)
(*   showInstallPrompt, deferredPrompt, showUpdateBanner   the state hooks  *)
(*       (deferredPrompt: TRUE for a captured event, FALSE for null)        *)
(*   dontShow     localStorage holds syncora_dont_show_install = 'true'     *)
(*   storage      "ok", or "denied" when localStorage throws on every call  *)
(*   timers       the 30 s timers of handleInstallPrompt not yet fired      *)
(*   choosing     handleInstall is awaiting deferredPrompt.userChoice       *)
(*   readyThen    callbacks of handleUpdate queued on serviceWorker.ready   *)
(*   reloading    window.location.reload() was called, the page still runs  *)
(*   waiting      registration.waiting is a worker (installed, not active)  *)
(*   posted       SKIP_WAITING messages this page has posted (history)      *)
(*   controller   the worker version that controls the page (history)      *)
(*   active       the worker version that is active (history)               *)
(*   nPrompts, nUpdates   events counted against the bounds (history)       *)
(* The online / offline banner has no part in any property and is left out. *)

PwaFresh(flag, storage) ==
    [showInstallPrompt |-> FALSE, deferredPrompt |-> FALSE,
     showUpdateBanner |-> FALSE, dontShow |-> flag, storage |-> storage,
     timers |-> 0, choosing |-> FALSE, readyThen |-> 0, reloading |-> FALSE,
     waiting |-> FALSE, posted |-> 0, controller |-> "old", active |-> "old",
     nPrompts |-> 0, nUpdates |-> 0]

\* the component after its first render, in a browser that has no flag stored
PwaInit == pwa = PwaFresh(FALSE, "ok")

\* the component after its first render: the flag may be there from an
\* earlier visit; a storage that throws holds no flag
PwaStart ==
    \E flag \in BOOLEAN, storage \in {"ok", "denied"} :
        /\ storage = "denied" => ~flag
        /\ pwa = PwaFresh(flag, storage)

\* a step of the page component leaves the other components alone
PageOnly == UNCHANGED <<reducerVars, histVars, swVars, swHist, wsVars>>

\* localStorage.setItem('syncora_dont_show_install', 'true') inside try/catch
SetDontShow(p) == IF p.storage = "ok" THEN [p EXCEPT !.dontShow = TRUE] ELSE p

\* beforeinstallprompt: the event is kept; unless the flag is read as 'true'
\* or the app runs standalone, a 30 s timer is started
HandleInstallPrompt(isInstalled) ==
    /\ pwa.nPrompts < MaxPrompts
    /\ LET kept == [pwa EXCEPT !.deferredPrompt = TRUE,
                               !.nPrompts = pwa.nPrompts + 1]
       IN pwa' = IF pwa.storage = "ok" /\ pwa.dontShow THEN kept
                 ELSE IF ~isInstalled
                      THEN [kept EXCEPT !.timers = pwa.timers + 1]
                      ELSE kept
    /\ PageOnly

\* the callback of a 30 s timer: setShowInstallPrompt(true)
InstallTimerFires ==
    /\ pwa.timers > 0
    /\ pwa' = [pwa EXCEPT !.timers = pwa.timers - 1,
                          !.showInstallPrompt = TRUE]
    /\ PageOnly

\* the Install button, up to the await of userChoice
HandleInstall ==
    /\ pwa.showInstallPrompt
    /\ ~pwa.choosing
    /\ pwa' = IF ~pwa.deferredPrompt THEN pwa
              ELSE [pwa EXCEPT !.choosing = TRUE]
    /\ PageOnly

\* handleInstall after the await: the user has answered the browser's dialog
HandleInstallResumes(outcome) ==
    /\ pwa.choosing
    /\ LET done == [pwa EXCEPT !.choosing = FALSE,
                               !.deferredPrompt = FALSE,
                               !.showInstallPrompt = FALSE]
       IN pwa' = IF outcome = "accepted" THEN SetDontShow(done) ELSE done
    /\ PageOnly

\* the "Don't show again" button of the install prompt
DontShowAgain ==
    /\ pwa.showInstallPrompt
    /\ pwa' = [SetDontShow(pwa) EXCEPT !.showInstallPrompt = FALSE]
    /\ PageOnly

\* statechange of a worker found by updatefound: once it is installed and the
\* page has a controller, the banner is shown; the worker is then waiting
NewWorkerInstalled(hasController) ==
    /\ pwa.nUpdates < MaxUpdates
    /\ ~pwa.waiting
    /\ pwa' = [pwa EXCEPT !.waiting = TRUE,
                          !.nUpdates = pwa.nUpdates + 1,
                          !.showUpdateBanner =
                              IF hasController THEN TRUE ELSE @]
    /\ PageOnly

\* the waiting worker is promoted: its install handler has called
\* skipWaiting(), and so does its handler of SKIP_WAITING; its activate
\* handler claims the open pages
NewWorkerActivates ==
    /\ pwa.waiting
    /\ pwa' = [pwa EXCEPT !.waiting = FALSE, !.active = "new",
                          !.controller = "new"]
    /\ PageOnly

\* the Later button of the update banner
UpdateLater ==
    /\ pwa.showUpdateBanner
    /\ pwa' = [pwa EXCEPT !.showUpdateBanner = FALSE]
    /\ PageOnly

\* the Update Now button: a callback is queued on serviceWorker.ready, then
\* window.location.reload() is called
HandleUpdate ==
    /\ pwa.showUpdateBanner
    /\ ~pwa.reloading
    /\ pwa' = [pwa EXCEPT !.readyThen = pwa.readyThen + 1,
                          !.reloading = TRUE]
    /\ PageOnly

\* the callback queued by handleUpdate: registration.waiting?.postMessage
ReadyThen ==
    /\ pwa.readyThen > 0
    /\ pwa' = [pwa EXCEPT !.readyThen = pwa.readyThen - 1,
                          !.posted = IF pwa.waiting THEN @ + 1 ELSE @]
    /\ PageOnly

\* the reload takes place: the page is rendered anew (its timers and
\* callbacks are gone with the old document) under the active worker; the
\* callback queued on the ready promise runs before the document goes
PageReloads ==
    /\ pwa.reloading
    /\ pwa.readyThen = 0
    /\ pwa' = [PwaFresh(pwa.dontShow, pwa.storage) EXCEPT
                   !.waiting = pwa.waiting, !.active = pwa.active,
                   !.controller = pwa.active,
                   !.nPrompts = pwa.nPrompts, !.nUpdates = pwa.nUpdates]
    /\ PageOnly

InstallOutcomes == {"accepted", "dismissed"}

NextPwa ==
    \/ \E isInstalled \in BOOLEAN : HandleInstallPrompt(isInstalled)
    \/ InstallTimerFires
    \/ HandleInstall
    \/ \E outcome \in InstallOutcomes : HandleInstallResumes(outcome)
    \/ DontShowAgain
    \/ \E hasController \in BOOLEAN : NewWorkerInstalled(hasController)
    \/ NewWorkerActivates
    \/ UpdateLater
    \/ HandleUpdate
    \/ ReadyThen
    \/ PageReloads

InitPwa == ReducerInit /\ SwInit /\ WsInit /\ PwaStart

\* the page component alone
SpecPwa == InitPwa /\ [][NextPwa]_vars

-----------------------------------------------------------------------------
Init == ReducerInit /\ SwInit /\ WsInit /\ PwaInit

Next == Tick \/ EventStep \/ ManualStep

Spec == Init /\ [][Next]_vars

\* the reducer driven by the push channel alone
NextEvents == Tick \/ EventStep

SpecEvents == Init /\ [][NextEvents]_vars

\* the action events alone (no trace event, no init, no manual call)
NextActions ==
    \/ \E type \in ActionStartTypes, i \in EventActionIds, g \in Agents,
          t \in EventTraceIds : nEvents < MaxEvents /\ EvActionStart(type, i, g, t)
    \/ \E i \in SrvActionIds \cup KnownActionIds, st \in EventStatuses,
          d \in EventPayloads :
          nEvents < MaxEvents /\ EvActionUpdate(i, st, d.output, d.duration_ms)
    \/ \E i \in SrvActionIds \cup KnownActionIds, d \in EventPayloads :
          nEvents < MaxEvents /\ EvActionCompleted(i, d.output, d.duration_ms)
    \/ \E i \in SrvActionIds \cup KnownActionIds, err \in EventErrors :
          nEvents < MaxEvents /\ EvActionError(i, err)

SpecActions == Init /\ [][NextActions]_vars

\* long runs of action starts over several traces: every action gets a generated
\* id, so that the run is long enough to fill recentActions
NextRecent ==
    \/ \E type \in ActionStartTypes :
          nEvents < MaxAdds /\ EvActionStart(type, Undefined, "manager", Undefined)
    \/ /\ nEvents < MaxAdds
       /\ AddAction([agent |-> "manager", status |-> "running",
                     output |-> Undefined, duration_ms |-> Undefined])
    \/ nEvents < MaxAdds /\ EvTraceStart("trace_started", "t1")

SpecRecent == Init /\ [][NextRecent]_vars

\* long runs of trace completions: enough of them to fill allTraces
NextArchive ==
    \/ Tick
    \/ nEvents < MaxCompletes /\ StartNewTrace
    \/ \E type \in TraceCompleteTypes :
          nEvents < MaxCompletes /\ EvTraceComplete(type, "done", Undefined)
    \/ nEvents < MaxCompletes /\ CompleteTrace("done")

SpecArchive == Init /\ [][NextArchive]_vars

\* the service worker: lifecycle, fetch events, control messages
\* a step of the worker leaves the reducer alone; the history of the worker
\* records the stores that the activation deletes
ReducerIdle ==
    /\ UNCHANGED <<reducerVars, histVars, wsVars, pwaVars>>
    /\ purged' = IF swState = "installed" /\ swState' = "activated"
                 THEN Range(caches) \ Range(caches')
                 ELSE purged

NextSW ==
    \/ \E allFetched \in BOOLEAN : Install(allFetched) /\ ReducerIdle
    \/ Activate /\ ReducerIdle
    \/ \E request \in Requests :
          nReq < MaxRequests /\ OnFetch(request) /\ ReducerIdle
    \/ \E t \in tasks, response \in NetResponses :
          ApiResolved(t, response) /\ ReducerIdle
    \/ \E t \in tasks : ApiRejected(t) /\ ReducerIdle
    \/ \E t \in tasks, response \in NetResponses :
          NavResolved(t, response) /\ ReducerIdle
    \/ \E t \in tasks : NavRejected(t) /\ ReducerIdle
    \/ \E t \in tasks, response \in NetResponses :
          StaticResolved(t, response) /\ ReducerIdle
    \/ \E t \in tasks : StaticRejected(t) /\ ReducerIdle
    \/ \E t \in tasks, response \in NetResponses :
          PackResolved(t, response) /\ ReducerIdle
    \/ \E t \in tasks : PackRejected(t) /\ ReducerIdle
    \/ \E t \in bg, response \in NetResponses :
          BackgroundResolved(t, response) /\ ReducerIdle
    \/ \E t \in bg : BackgroundRejected(t) /\ ReducerIdle
    \/ \E w \in writes : PutCompletes(w) /\ ReducerIdle
    \/ \E m \in outbox : Broadcast(m) /\ ReducerIdle
    \/ \E name \in CacheNames \cup {Undefined} : ClearCache(name) /\ ReducerIdle

SpecSW == Init /\ [][NextSW]_vars

\* the service worker under requests that carry the download marker
NextPacks ==
    \/ \E allFetched \in BOOLEAN : Install(allFetched) /\ ReducerIdle
    \/ Activate /\ ReducerIdle
    \/ \E request \in PackRequests :
          nReq < MaxRequests /\ OnFetch(request) /\ ReducerIdle
    \/ \E t \in tasks, response \in NetResponses :
          ApiResolved(t, response) /\ ReducerIdle
    \/ \E t \in tasks : ApiRejected(t) /\ ReducerIdle
    \/ \E t \in tasks, response \in NetResponses :
          PackResolved(t, response) /\ ReducerIdle
    \/ \E t \in tasks : PackRejected(t) /\ ReducerIdle
    \/ \E w \in writes : PutCompletes(w) /\ ReducerIdle
    \/ \E m \in outbox : Broadcast(m) /\ ReducerIdle
    \/ \E name \in CacheNames \cup {Undefined} : ClearCache(name) /\ ReducerIdle

SpecPacks == Init /\ [][NextPacks]_vars

\* the service worker under navigation requests
NextNav ==
    \/ \E allFetched \in BOOLEAN : Install(allFetched) /\ ReducerIdle
    \/ Activate /\ ReducerIdle
    \/ \E request \in NavRequests :
          nReq < MaxRequests /\ OnFetch(request) /\ ReducerIdle
    \/ \E t \in tasks, response \in NetResponses :
          NavResolved(t, response) /\ ReducerIdle
    \/ \E t \in tasks : NavRejected(t) /\ ReducerIdle
    \/ \E w \in writes : PutCompletes(w) /\ ReducerIdle
    \/ \E name \in CacheNames \cup {Undefined} : ClearCache(name) /\ ReducerIdle

SpecNav == Init /\ [][NextNav]_vars

\* the stores an origin may hold when a new version of the worker is installed
StoreOrder ==
    <<"syncora-v0", "syncora-dynamic-v0", CACHE_NAME, DYNAMIC_CACHE,
      OFFLINE_PACKS_CACHE>>
LeftBehind == {Without(StoreOrder, gone) : gone \in SUBSET StoreNames}

InitRotation ==
    ReducerInit /\ WsInit /\ PwaInit /\ \E stores \in LeftBehind : SwInitWith(stores)

RotationRequests == {Icon, Script}

\* the worker installed over the stores of earlier versions, then serving
\* fetches and control messages
NextRotation ==
    \/ \E allFetched \in BOOLEAN : Install(allFetched) /\ ReducerIdle
    \/ Activate /\ ReducerIdle
    \/ \E request \in RotationRequests :
          nReq < MaxRotationEvents /\ OnFetch(request) /\ ReducerIdle
    \/ \E t \in tasks, response \in NetResponses :
          StaticResolved(t, response) /\ ReducerIdle
    \/ \E t \in tasks : StaticRejected(t) /\ ReducerIdle
    \/ \E t \in bg, response \in NetResponses :
          BackgroundResolved(t, response) /\ ReducerIdle
    \/ \E t \in bg : BackgroundRejected(t) /\ ReducerIdle
    \/ \E w \in writes : PutCompletes(w) /\ ReducerIdle
    \/ \E name \in ClearMessages : ClearCache(name) /\ ReducerIdle
    \/ \E msg \in ContentMessages :
          nReq < MaxRotationEvents /\ CacheContent(msg) /\ ReducerIdle
    \/ \E t \in tasks, response \in NetResponses :
          ContentResolved(t, response) /\ ReducerIdle
    \/ \E t \in tasks : ContentRejected(t) /\ ReducerIdle
    \/ SkipWaiting /\ ReducerIdle
    \/ \E size \in CacheSizes : GetCacheSize(size) /\ ReducerIdle

SpecRotation == InitRotation /\ [][NextRotation]_vars

\* the fetch listener under every combination of method, path and mode
NextClassify ==
    \/ \E allFetched \in BOOLEAN : Install(allFetched) /\ ReducerIdle
    \/ Activate /\ ReducerIdle
    \/ \E request \in ClassifyRequests :
          nReq < MaxRequests /\ OnFetch(request) /\ ReducerIdle

SpecClassify == Init /\ [][NextClassify]_vars

\* the push channel: connection attempts, socket events, unmount
NextSocket ==
    \/ ConnectionAttempt
    \/ \E i \in 1..Len(socks) : SocketOpens(i) /\ ChannelOnly
    \/ \E i \in 1..Len(socks) : SocketErrors(i) /\ ChannelOnly
    \/ \E i \in 1..Len(socks) : SocketCloses(i) /\ ChannelOnly
    \/ Unmount /\ ChannelOnly

SpecSocket == Init /\ [][NextSocket]_vars

\* timers fire: a connectWebSocket call that is due is eventually made
SpecSocketFair == SpecSocket /\ WF_vars(ConnectionAttempt)

\* everything that writes to a store or deletes one, with the stores an
\* earlier session left behind
StoreRequests == {PackDownload, Icon}
NextStores ==
    \/ \E allFetched \in BOOLEAN : Install(allFetched) /\ ReducerIdle
    \/ Activate /\ ReducerIdle
    \/ \E request \in StoreRequests :
          nReq < MaxRotationEvents /\ OnFetch(request) /\ ReducerIdle
    \/ \E t \in tasks, response \in NetResponses :
          PackResolved(t, response) /\ ReducerIdle
    \/ \E t \in tasks : PackRejected(t) /\ ReducerIdle
    \/ \E t \in tasks, response \in NetResponses :
          StaticResolved(t, response) /\ ReducerIdle
    \/ \E t \in tasks : StaticRejected(t) /\ ReducerIdle
    \/ \E t \in bg, response \in NetResponses :
          BackgroundResolved(t, response) /\ ReducerIdle
    \/ \E t \in bg : BackgroundRejected(t) /\ ReducerIdle
    \/ \E w \in writes : PutCompletes(w) /\ ReducerIdle
    \/ \E m \in outbox : Broadcast(m) /\ ReducerIdle
    \/ \E name \in ClearMessages : ClearCache(name) /\ ReducerIdle
    \/ \E msg \in ContentMessages :
          nReq < MaxRotationEvents /\ CacheContent(msg) /\ ReducerIdle
    \/ \E t \in tasks, response \in NetResponses :
          ContentResolved(t, response) /\ ReducerIdle
    \/ \E t \in tasks : ContentRejected(t) /\ ReducerIdle

SpecStores == InitRotation /\ [][NextStores]_vars

\* the three network-first strategies, each with a request of its own
NetFirstRequests == {ApiCurriculum, NavRoot, PackDownload}
NextNetFirst ==
    \/ \E allFetched \in BOOLEAN : Install(allFetched) /\ ReducerIdle
    \/ Activate /\ ReducerIdle
    \/ \E request \in NetFirstRequests :
          nReq < MaxRequests /\ OnFetch(request) /\ ReducerIdle
    \/ \E t \in tasks, response \in NetResponses :
          ApiResolved(t, response) /\ ReducerIdle
    \/ \E t \in tasks : ApiRejected(t) /\ ReducerIdle
    \/ \E t \in tasks, response \in NetResponses :
          NavResolved(t, response) /\ ReducerIdle
    \/ \E t \in tasks : NavRejected(t) /\ ReducerIdle
    \/ \E t \in tasks, response \in NetResponses :
          PackResolved(t, response) /\ ReducerIdle
    \/ \E t \in tasks : PackRejected(t) /\ ReducerIdle
    \/ \E w \in writes : PutCompletes(w) /\ ReducerIdle
    \/ \E m \in outbox : Broadcast(m) /\ ReducerIdle

SpecNetFirst == Init /\ [][NextNetFirst]_vars

\* requests for the same url handled at the same time
RaceRequests == {ApiCurriculum, Script, Icon}
NextRace ==
    \/ \E allFetched \in BOOLEAN : Install(allFetched) /\ ReducerIdle
    \/ Activate /\ ReducerIdle
    \/ \E request \in RaceRequests :
          nReq < MaxRequests /\ OnFetch(request) /\ ReducerIdle
    \/ \E t \in tasks, response \in NetResponses :
          ApiResolved(t, response) /\ ReducerIdle
    \/ \E t \in tasks : ApiRejected(t) /\ ReducerIdle
    \/ \E t \in tasks, response \in NetResponses :
          StaticResolved(t, response) /\ ReducerIdle
    \/ \E t \in tasks : StaticRejected(t) /\ ReducerIdle
    \/ \E t \in bg, response \in NetResponses :
          BackgroundResolved(t, response) /\ ReducerIdle
    \/ \E t \in bg : BackgroundRejected(t) /\ ReducerIdle
    \/ \E w \in writes : PutCompletes(w) /\ ReducerIdle

SpecRace == Init /\ [][NextRace]_vars

\* the manual API next to the events it is compared with
NextManual ==
    \/ Tick
    \/ \E type \in ActionStartTypes, i \in EventActionIds, g \in Agents,
          t \in EventTraceIds : nEvents < MaxEvents /\ EvActionStart(type, i, g, t)
    \/ \E type \in TraceCompleteTypes, d \in EventSummaries :
          nEvents < MaxEvents /\ EvTraceComplete(type, d.summary, d.duration_ms)
    \/ nEvents < MaxEvents /\ StartNewTrace
    \/ \E a \in ManualActions : nEvents < MaxEvents /\ AddAction(a)
    \/ \E s \in ManualSummaries : nEvents < MaxEvents /\ CompleteTrace(s)

SpecManual == Init /\ [][NextManual]_vars

\* the control channel with the stores an earlier session left behind
NextControl ==
    \/ \E allFetched \in BOOLEAN : Install(allFetched) /\ ReducerIdle
    \/ Activate /\ ReducerIdle
    \/ nReq < MaxRotationEvents /\ OnFetch(Script) /\ ReducerIdle
    \/ \E t \in tasks, response \in NetResponses :
          StaticResolved(t, response) /\ ReducerIdle
    \/ \E t \in tasks : StaticRejected(t) /\ ReducerIdle
    \/ \E w \in writes : PutCompletes(w) /\ ReducerIdle
    \/ \E name \in ClearMessages : ClearCache(name) /\ ReducerIdle
    \/ \E msg \in ContentMessages :
          nReq < MaxRotationEvents /\ CacheContent(msg) /\ ReducerIdle
    \/ \E t \in tasks, response \in NetResponses :
          ContentResolved(t, response) /\ ReducerIdle
    \/ \E t \in tasks : ContentRejected(t) /\ ReducerIdle

SpecControl == InitRotation /\ [][NextControl]_vars

\* the manual API of a provider whose push channel connects and disconnects
NextClear ==
    \/ \E a \in ManualActions : nEvents < MaxEvents /\ AddAction(a)
    \/ \E s \in ManualSummaries : nEvents < MaxEvents /\ CompleteTrace(s)
    \/ nEvents < MaxEvents /\ ClearTraces
    \/ \E b \in BOOLEAN : nEvents < MaxEvents /\ SetTraceVisible(b)
    \/ \E b \in BOOLEAN : nEvents < MaxEvents /\ SetMinimized(b)
    \/ ConnectionAttempt
    \/ \E i \in 1..Len(socks) : SocketOpens(i) /\ ChannelOnly
    \/ \E i \in 1..Len(socks) : SocketCloses(i) /\ ChannelOnly

SpecClear == Init /\ [][NextClear]_vars

-----------------------------------------------------------------------------
(* Properties                                                               *)

\* a handler ran in this step
Handled(ops) == nEvents' = nEvents + 1 /\ last'.op \in ops

AddOps == {"action_start", "addAction"}
CompleteOps == {"trace_complete", "completeTrace"}
ReplaceOps == {"init", "trace_start"}
PatchOps == {"action_update", "action_completed", "action_error", "updateAction"}

HasTrace == currentTrace # Null
TraceActions == IF HasTrace THEN currentTrace.actions ELSE <<>>
IdsOf(seq) == {seq[i].id : i \in 1..Len(seq)}
Occurrences(seq, id) == Cardinality({i \in 1..Len(seq) : seq[i].id = id})

\* an add puts the new action first and shifts the others down by one
C1_AddShifts ==
    Handled(AddOps) =>
        /\ Len(recentActions') =
              (IF Len(recentActions) < RecentCap THEN Len(recentActions) + 1
               ELSE RecentCap)
        /\ recentActions'[1].id = last'.id
        /\ \A i \in 2..Len(recentActions') : recentActions'[i] = recentActions[i - 1]
\* C1: recentActions never holds more than 50 entries, and a step that adds an
\* action puts it first and shifts the others down by one, so that with 50
\* entries present the one dropped is the last (the oldest).
C1_RecentBounded ==
    /\ [](Len(recentActions) <= RecentCap)
    /\ [][C1_AddShifts]_vars
\* more than 50 actions were added, the first of them is gone
C1_Witness ==
    /\ last.op \in AddOps
    /\ nEvents > RecentCap
    /\ actionIdCounter > RecentCap
    /\ Len(recentActions) = RecentCap
    /\ "action_1" \notin IdsOf(recentActions)
    /\ "action_2" = recentActions[RecentCap].id

\* a completion puts the completed trace first and shifts the others down
C2_CompleteArchives ==
    (Handled(CompleteOps) /\ HasTrace) =>
        /\ currentTrace'.status = "completed"
        /\ currentTrace'.trace_id = currentTrace.trace_id
        /\ Len(allTraces') =
              (IF Len(allTraces) < TraceCap THEN Len(allTraces) + 1 ELSE TraceCap)
        /\ allTraces'[1] = currentTrace'
        /\ \A i \in 2..Len(allTraces') : allTraces'[i] = allTraces[i - 1]
\* C2: allTraces never holds more than 20 entries, and a completion of an
\* existing trace puts the completed trace first and shifts the others down.
C2_ArchiveBounded ==
    /\ [](Len(allTraces) <= TraceCap)
    /\ [][C2_CompleteArchives]_vars
\* a completion with allTraces already full, holding traces of two different ids
C2_Witness ==
    /\ last.op \in CompleteOps
    /\ nEvents > TraceCap + 1
    /\ Len(allTraces) = TraceCap
    /\ allTraces[1] = currentTrace
    /\ allTraces[1].trace_id # allTraces[TraceCap].trace_id

\* C3: an action id present once in currentTrace.actions and once in
\* recentActions has the same status and the same output in both.
C3_DualWrite ==
    \A i \in 1..Len(TraceActions), j \in 1..Len(recentActions) :
        (/\ TraceActions[i].id = recentActions[j].id
         /\ Occurrences(TraceActions, TraceActions[i].id) = 1
         /\ Occurrences(recentActions, TraceActions[i].id) = 1)
        => /\ TraceActions[i].status = recentActions[j].status
           /\ TraceActions[i].output = recentActions[j].output

\* a patching handler leaves terminal statuses alone
C4_Absorbing ==
    Handled(PatchOps) =>
        /\ \A i \in 1..Len(TraceActions) :
              TraceActions[i].status \in TerminalStatuses
              => currentTrace'.actions[i].status = TraceActions[i].status
        /\ \A j \in 1..Len(recentActions) :
              recentActions[j].status \in TerminalStatuses
              => recentActions'[j].status = recentActions[j].status
\* C4: a handler that patches actions leaves every completed or error status
\* as it is, in currentTrace.actions and in recentActions.
C4_TerminalAbsorbing == [][C4_Absorbing]_vars

\* currentTrace is running under an id it has carried as completed or error
RunningClosed ==
    /\ HasTrace
    /\ currentTrace.status = "running"
    /\ currentTrace.trace_id \in closedIds
\* C5 as claimed: currentTrace is never running under a trace id it has carried
\* as completed or error.
C5_NeverReopened == ~RunningClosed
\* how currentTrace may come to be running under a closed id
C5_Reopening ==
    RunningClosed' =>
        \/ RunningClosed /\ currentTrace.trace_id = currentTrace'.trace_id
        \/ Handled(ReplaceOps) /\ last'.id = currentTrace'.trace_id
\* C5 as amended: currentTrace comes to be running under a trace id it has carried
\* as completed or error only in a step of init, trace_start or trace_started
\* that carries this id; no other event makes a closed trace running again.
C5_ReopenedOnlyByReplace == [][C5_Reopening]_vars
\* a completed trace took an action event and stayed completed
C5_Witness ==
    /\ HasTrace
    /\ last.op = "action_start"
    /\ currentTrace.status = "completed"
    /\ currentTrace.trace_id \in closedIds
    /\ Len(currentTrace.actions) > 0

\* the action-start event that finds no trace
C6_Step ==
    (currentTrace = Null /\ Handled({"action_start"})) =>
        /\ currentTrace' # Null
        /\ currentTrace'.status = "running"
        /\ Len(currentTrace'.actions) = 1
        /\ currentTrace'.actions[1].id = last'.id
        /\ Len(recentActions') = 1
        /\ recentActions'[1].id = last'.id
\* C6: with no current trace, an action-start event creates a running trace with
\* exactly that action, and recentActions holds exactly that action.
C6_FirstActionCreatesTrace == [][C6_Step]_vars
\* the first handler to run is the action event: there was no trace before it
C6_Witness ==
    /\ last.op = "action_start"
    /\ nEvents = 1
    /\ HasTrace
    /\ currentTrace.trace_id = LocalTraceId
    /\ Len(currentTrace.actions) = 1
    /\ Len(recentActions) = 1
    /\ closedIds = {}
    /\ ~isMinimized

\* the update that completes the last action
C7_Step ==
    \A d \in EventPayloads :
        (/\ Len(TraceActions) > 0
         /\ TraceActions[Len(TraceActions)].status = "running"
         /\ EvActionUpdate(TraceActions[Len(TraceActions)].id, "completed",
                           d.output, d.duration_ms))
        => LET id == TraceActions[Len(TraceActions)].id IN
           /\ Len(currentTrace'.actions) = Len(TraceActions)
           /\ currentTrace'.actions[Len(TraceActions)].status = "completed"
           /\ \A i \in 1..Len(TraceActions) :
                 currentTrace'.actions[i].status =
                    (IF TraceActions[i].id = id THEN "completed"
                     ELSE TraceActions[i].status)
           /\ Len(recentActions') = Len(recentActions)
           /\ \A j \in 1..Len(recentActions) :
                 recentActions'[j].status =
                    (IF recentActions[j].id = id THEN "completed"
                     ELSE recentActions[j].status)
\* C7: an action_update with status "completed" for the id of the last action,
\* which is running, makes the entries with this id completed in both lists and
\* leaves the status of every other entry as it was.
C7_UpdateCompletesLast == [][C7_Step]_vars
\* two actions, the first still running, the second completed by the update
C7_Witness ==
    /\ last.op = "action_update"
    /\ Len(TraceActions) = 2
    /\ TraceActions[2].id = last.id
    /\ TraceActions[2].status = "completed"
    /\ TraceActions[1].id # last.id
    /\ TraceActions[1].status = "running"
    /\ Len(recentActions) = 2
    /\ recentActions[1].id = last.id
    /\ recentActions[1].status = "completed"
    /\ recentActions[2].status = "running"

-----------------------------------------------------------------------------
(* Properties of the Offline Cache Controller                               *)

\* the GET requests whose path starts with an allowlisted API prefix
AllowlistedApi ==
    {r \in Requests : /\ r.method = "GET"
                      /\ \E p \in CACHEABLE_API_PATTERNS : IsPrefix(p, r.path)}

\* the GET requests under /api/ whose path starts with no allowlisted prefix
UnlistedApi ==
    {r \in Requests : /\ r.method = "GET"
                      /\ IsPrefix(<<"/", "api", "/">>, r.path)
                      /\ ~ \E p \in CACHEABLE_API_PATTERNS : IsPrefix(p, r.path)}

C8_Step ==
    /\ \A t \in tasks : t.req \in AllowlistedApi =>
          /\ \A response \in NetResponses :
                (Ok(response) /\ ApiResolved(t, response)) =>
                   /\ DYNAMIC_CACHE \in Range(caches')
                   /\ [cache |-> DYNAMIC_CACHE, url |-> t.req.path,
                       resp |-> response, id |-> t.id] \in writes'
                   /\ reply'.resp = response
          /\ (ApiRejected(t) /\ entries[DYNAMIC_CACHE][t.req.path] # NoEntry) =>
                   /\ reply'.id = t.id
                   /\ reply'.kind = "response"
                   /\ reply'.from = "cache"
                   /\ reply'.resp = entries[DYNAMIC_CACHE][t.req.path]
                   /\ reply'.resp # OfflineJson
    /\ \A w \in writes :
          (PutCompletes(w) /\ \E r \in AllowlistedApi : r.path = w.url) =>
             /\ w.cache = DYNAMIC_CACHE
             /\ entries'[DYNAMIC_CACHE][w.url] = w.resp

C9_Step ==
    /\ \A r \in UnlistedApi : OnFetch(r) =>
          /\ netCalls' = netCalls + 1
          /\ \E t \in tasks' \ tasks : t.req = r /\ t.handler = "api"
          /\ reply' = reply
          /\ UNCHANGED <<caches, entries, writes>>
    /\ \A t \in tasks : t.req \in UnlistedApi =>
          /\ \A response \in NetResponses : ApiResolved(t, response) =>
                /\ UNCHANGED <<caches, entries, writes>>
                /\ reply'.from = "network"
                /\ reply'.resp = response
          /\ ApiRejected(t) => UNCHANGED <<caches, entries, writes>>

(* C9: for a GET request under /api/ that matches no allowlisted prefix, no *)
(* step of the fetch handler creates a store, changes an entry or starts a   *)
(* write, whatever the network answers, and every such request starts one    *)
(* network call and is answered from the network when the network answers.   *)
C9_UnlistedApiNeverCached == [][C9_Step]_vars

\* the unlisted request succeeded twice: two network calls, nothing stored
C9_Witness ==
    /\ reply.id = 2
    /\ reply.handler = "api"
    /\ reply.url = ApiChat.path
    /\ reply.from = "network"
    /\ Ok(reply.resp)
    /\ netCalls = 2
    /\ tasks = {}
    /\ writes = {}
    /\ \A n \in CacheNames : entries[n][ApiChat.path] = NoEntry

C10_Step ==
    /\ \A r \in Requests :
          (Classify(r) = "static" /\ CachesMatch(r.path) # NoEntry /\ OnFetch(r)) =>
             /\ reply' = [id |-> nReq + 1, url |-> r.path, handler |-> "static",
                          kind |-> "response", from |-> "cache",
                          resp |-> CachesMatch(r.path)]
             /\ tasks' = tasks
             /\ bg \subseteq bg'
             /\ Cardinality(bg' \ bg) = 1
             /\ \A b \in bg' \ bg : b.req = r
             /\ netCalls' = netCalls + 1
    /\ \A b \in bg : BackgroundRejected(b) =>
          UNCHANGED <<reply, caches, entries, writes, tasks>>

(* C10: a static-asset request that finds a cache entry is answered with    *)
(* that entry in the step of the lookup, before any network answer, and that *)
(* step starts exactly one background fetch of the same request; the failure *)
(* of a background fetch changes neither the answer given nor any store.     *)
C10_StaleWhileRevalidate == [][C10_Step]_vars

\* the icon was served from the core store and its background fetch is over
\* without any write
C10_Witness ==
    /\ reply.id = 1
    /\ reply.handler = "static"
    /\ reply.from = "cache"
    /\ reply.url = Icon.path
    /\ reply.resp = NetOk("v1")
    /\ nReq = 1
    /\ netCalls = 1
    /\ bg = {}
    /\ writes = {}

\* the handler of task t answers with the network's response in this step
SettlesFromNetwork(t, response) ==
    /\ t \in tasks
    /\ t \notin tasks'
    /\ reply'.id = t.id
    /\ reply'.from = "network"
    /\ reply'.resp = response

\* a pack download that succeeded: the write to the offline-packs store is
\* started and the message is queued for the clients
PackStored(t, response) ==
    /\ OFFLINE_PACKS_CACHE \in Range(caches')
    /\ [cache |-> OFFLINE_PACKS_CACHE, url |-> t.req.path, resp |-> response,
        id |-> t.id] \in writes'
    /\ [url |-> t.req.path, id |-> t.id] \in outbox'

C11_AnyMarkerStep ==
    \A t \in tasks, response \in NetResponses :
        (/\ t.req.method = "GET"
         /\ HasDownloadMarker(t.req.path)
         /\ Ok(response)
         /\ SettlesFromNetwork(t, response))
        => PackStored(t, response)

(* C11 as claimed: every GET request whose path contains /offline/download  *)
(* and whose fetch succeeds with an HTTP-ok response has the response        *)
(* written to the offline-packs store and the message queued for the clients.*)
C11_EveryMarkerRequestStored == [][C11_AnyMarkerStep]_vars

C11_Step ==
    /\ \A t \in tasks, response \in NetResponses :
          (/\ t.req.method = "GET"
           /\ HasDownloadMarker(t.req.path)
           /\ ~ IsPrefix(<<"/", "api", "/">>, t.req.path)
           /\ Ok(response)
           /\ SettlesFromNetwork(t, response))
          => PackStored(t, response)
    /\ \A w \in writes :
          (PutCompletes(w) /\ w.cache = OFFLINE_PACKS_CACHE) =>
             entries'[OFFLINE_PACKS_CACHE][w.url] = w.resp
    /\ \A m \in outbox : Broadcast(m) => m.url \in inbox'

(* C11 as amended: a GET request whose path contains /offline/download and  *)
(* does not start with /api/, and whose fetch succeeds with an HTTP-ok       *)
(* response, has exactly that response written to the offline-packs store    *)
(* under the request, and an OFFLINE_PACK_DOWNLOADED message with its URL    *)
(* queued; the write lands as that response and the message reaches the      *)
(* clients.                                                                  *)
C11_PackStoredAndAnnounced == [][C11_Step]_vars

\* the pack was fetched, stored in the offline-packs store and announced
C11_Witness ==
    /\ reply.handler = "pack"
    /\ reply.from = "network"
    /\ reply.url = PackDownload.path
    /\ Ok(reply.resp)
    /\ entries[OFFLINE_PACKS_CACHE][PackDownload.path] = reply.resp
    /\ PackDownload.path \in inbox
    /\ outbox = {}
    /\ writes = {}

\* the entries the existing stores hold for a url
Held(url) == {entries[n][url] : n \in Range(caches)} \ {NoEntry}

\* the handler of task t settles in this step
Settles(t) == t \in tasks /\ t \notin tasks' /\ reply'.id = t.id

C12_Step ==
    \A t \in tasks :
        (t.req.method = "GET" /\ t.req.mode = "navigate" /\ t.handler = "nav"
         /\ Settles(t))
        => /\ reply'.kind = "response"
           /\ (reply'.from # "network" /\ Held(t.req.path) = {}) =>
                 IF Held(OFFLINE_URL) # {}
                 THEN reply'.from = "cache" /\ reply'.resp \in Held(OFFLINE_URL)
                 ELSE /\ reply'.from = "synth"
                      /\ reply'.resp = FallbackHtml
                      /\ reply'.resp.status = 200
                      /\ reply'.resp.ctype = "text/html"

(* C12: a navigation request whose fetch fails while no store holds an      *)
(* entry for it is answered with the cached offline page if a store holds    *)
(* one, and otherwise with the built-in fallback document, status 200 and    *)
(* content type text/html; the navigation handler always answers with a      *)
(* response, it never rejects.                                               *)
C12_NavigationFallsBackToOfflineHtml == [][C12_Step]_vars

\* network down and no store left: the built-in document was served
C12_Witness ==
    /\ reply.handler = "nav"
    /\ reply.url = NavDashboard.path
    /\ reply.kind = "response"
    /\ reply.from = "synth"
    /\ reply.resp = FallbackHtml
    /\ Held(NavDashboard.path) = {}
    /\ Held(OFFLINE_URL) = {}

C13_Step ==
    (swState = "installed" /\ swState' = "activated") =>
        /\ Range(caches') = Range(caches) \cap CacheNames
        /\ \A n \in Range(caches') : entries'[n] = entries[n]
        /\ caches' = Without(caches, StaleNames)

(* C13: whatever stores exist when the worker activates, the activate step *)
(* leaves no store with a name outside the three current names, and the     *)
(* stores with one of the three names that existed before it still exist,   *)
(* in the same order, with the entries they had.                             *)
C13_ActivationPurgesStale == [][C13_Step]_vars

\* the activation deleted both stale stores and kept three stores, of which
\* two hold the entry an earlier session had left
C13_Witness ==
    /\ swState = "activated"
    /\ purged = StaleNames
    /\ Range(caches) = CacheNames
    /\ entries[DYNAMIC_CACHE] = LeftStore
    /\ entries[OFFLINE_PACKS_CACHE] = LeftStore
    /\ entries[CACHE_NAME][OFFLINE_URL] = NetOk("v1")
    /\ nReq = 0

(* C14 as claimed: in every state after activation the core store exists   *)
(* and no store has a name outside the three current names.                  *)
C14_CoreAlwaysExists ==
    swState = "activated" =>
        (CACHE_NAME \in Range(caches) /\ Range(caches) \subseteq CacheNames)

\* how the core store comes and goes once the worker is installed
C14_Step ==
    /\ (swState = "parsed" /\ swState' = "installed") => CACHE_NAME \in Range(caches')
    /\ (swState # "parsed" /\ CACHE_NAME \in Range(caches)
        /\ CACHE_NAME \notin Range(caches'))
       => \E name \in {CACHE_NAME, Undefined} : ClearCache(name)
    /\ (swState # "parsed" /\ CACHE_NAME \notin Range(caches))
       => CACHE_NAME \notin Range(caches')

(* C14 as amended: in every state after activation no store has a name      *)
(* outside the three current names; the install step creates the core store, *)
(* which then exists until a CLEAR_CACHE message that names it, or names no  *)
(* store, deletes it, and no fetch and no control message creates it again.  *)
C14_NoStaleStoreCoreUntilCleared ==
    /\ [](swState = "activated" => Range(caches) \subseteq CacheNames)
    /\ [][C14_Step]_vars

\* after activation a CLEAR_CACHE deleted the core store, and a later
\* CACHE_CONTENT created the dynamic store only
C14_Witness ==
    /\ swState = "activated"
    /\ purged # {}
    /\ CACHE_NAME \notin Range(caches)
    /\ caches = <<DYNAMIC_CACHE>>
    /\ entries[DYNAMIC_CACHE][Script.path] # NoEntry

\* the worker leaves the installing state only with every core asset cached
C15_Step ==
    (swState = "parsed" /\ swState' # "parsed") =>
        \A u \in CORE_ASSETS : entries'[CACHE_NAME][u] # NoEntry

(* C15: when the caching of a core asset fails during install, the install  *)
(* step fails: the worker does not become installed (waiting) or activated   *)
(* with a core store that lacks an asset of the manifest.                    *)
C15_InstallFailureIsFatal ==
    /\ [][C15_Step]_vars
    /\ [](swState = "activated" =>
            (CACHE_NAME \in Range(caches) =>
                \A u \in CORE_ASSETS : entries[CACHE_NAME][u] # NoEntry))

-----------------------------------------------------------------------------
(* C16: reconnects of the push channel                                       *)

\* sockets that are connecting or open
Live == Cardinality({i \in 1..Len(socks) : socks[i] \in LiveStates})

\* pending reconnect timers
Timers == pending.t3000 + pending.t5000

\* socket i has received its close event in this step
ClosesNow(i) == socks[i] \in UnclosedStates /\ socks'[i] = "closed"

\* socket i has received its error event in this step
ErrorsNow(i) == socks[i] \in LiveStates /\ socks'[i] = "errored"

\* a connection attempt has thrown in this step
ThrowsNow == attempts' = attempts + 1 /\ socks' = socks

C16_Step ==
    /\ \A i \in 1..Len(socks) :
          /\ ClosesNow(i) => Timers' = Timers + 1
          /\ ErrorsNow(i) => Timers' = Timers
    /\ ThrowsNow => Timers' = Timers + pending.effect - pending'.effect

\* C16: while the provider is mounted, the sockets that are connecting or
\* open and the pending reconnect timers number at most one together; every
\* socket close schedules exactly one timer, a connection attempt that throws
\* leaves exactly one timer in place of the call that threw, and an error
\* event schedules none, so that an error followed by a close schedules one.
C16_AtMostOneConnectionOrTimer ==
    /\ [](mounted => Live + Timers <= 1)
    /\ [][mounted => C16_Step]_vars

\* a mounted provider whose first socket has closed, whose reconnect timer
\* has fired, and whose second socket has had its error event: no timer is
\* pending until that socket closes
C16_Witness ==
    /\ mounted
    /\ Len(socks) >= 2
    /\ socks[1] = "closed"
    /\ socks[Len(socks)] = "errored"
    /\ Timers = 0
    /\ Live = 0

-----------------------------------------------------------------------------
(* C17: the push channel reconnects for ever                                 *)

\* no socket is left that could still open or close: the last socket has
\* closed, or the last connection attempt has thrown
Disconnected == \A i \in 1..Len(socks) : socks[i] = "closed"

\* some socket is open
SomeOpen == \E i \in 1..Len(socks) : socks[i] = "open"

\* C17: with timers that fire, whenever the provider is mounted and its
\* socket has closed or its connection attempt has thrown, another connection
\* attempt is made, whatever the number of attempts made before (up to the
\* bound of the model); and a mounted provider whose socket is open has
\* isConnected true.
C17_ReconnectsForEver ==
    /\ \A n \in 1..(MaxAttempts - 1) :
          (mounted /\ attempts = n /\ Disconnected) ~> (attempts > n)
    /\ [](mounted /\ SomeOpen => isConnected)

\* a mounted provider that is connected again by its last allowed attempt,
\* every earlier attempt having thrown or ended with a close
C17_Witness ==
    /\ mounted
    /\ attempts = MaxAttempts
    /\ Len(socks) >= 2
    /\ socks[1] = "closed"
    /\ socks[Len(socks)] = "open"
    /\ isConnected

-----------------------------------------------------------------------------
(* C18: request classification                                               *)

\* the handlers this step has started
Started == (tasks' \ tasks) \cup (bg' \ bg)

\* exactly one handler of the kind named has been started, for this request
StartedOnly(request, kind) ==
    /\ Cardinality(Started) = 1
    /\ \A t \in Started : t.req = request /\ t.handler = kind

\* the worker has left the request alone
NotIntercepted ==
    /\ Started = {}
    /\ reply'.kind = "passthrough"
    /\ netCalls' = netCalls
    /\ UNCHANGED <<caches, entries, writes, outbox>>

C18_Step ==
    \A request \in ClassifyRequests :
        OnFetch(request) =>
            LET get == request.method = "GET"
                api == StartsWithApi(request.path)
                marker == HasDownloadMarker(request.path)
                navigate == request.mode = "navigate"
            IN  /\ ~get => NotIntercepted
                /\ get /\ api => StartedOnly(request, "api")
                /\ get /\ ~api /\ marker => StartedOnly(request, "pack")
                /\ get /\ ~api /\ ~marker /\ navigate
                      => StartedOnly(request, "nav")
                /\ get /\ ~api /\ ~marker /\ ~navigate
                      => StartedOnly(request, "static")

\* C18: for every combination of method, path and mode, a request that is not
\* a GET is not intercepted (no handler, no fetch by the worker, no store
\* touched); a GET under /api/ goes to the API handler; otherwise a GET whose
\* path contains /offline/download goes to the offline-pack handler; otherwise
\* a navigation goes to the navigation handler; every other GET goes to the
\* static-asset handler; one handler, and only one, is started for each
\* intercepted request.
C18_FirstMatchClassification == [][C18_Step]_vars

\* a navigation to a path under /api/ that contains the marker has gone to the
\* API handler, after a POST that was left alone
C18_Witness ==
    /\ reply.kind = "passthrough"
    /\ \E t \in tasks :
          /\ t.handler = "api"
          /\ t.req.mode = "navigate"
          /\ HasDownloadMarker(t.req.path)
          /\ t.id > reply.id

-----------------------------------------------------------------------------
(* C19: the store the fallback lookup reads                                  *)

\* the store a network-first strategy writes to
StrategyStore(handler) ==
    IF handler = "pack" THEN OFFLINE_PACKS_CACHE ELSE DYNAMIC_CACHE

C19_Step ==
    \A t \in tasks :
        (t.handler \in {"api", "nav", "pack"} /\ Settles(t)
         /\ reply'.from # "network"
         /\ StrategyStore(t.handler) \in Range(caches)
         /\ entries[StrategyStore(t.handler)][t.req.path] # NoEntry)
        => /\ reply'.kind = "response"
           /\ reply'.resp = entries[StrategyStore(t.handler)][t.req.path]

\* C19: when the fetch of a network-first strategy (API, navigation, offline
\* pack) fails and the store that strategy writes to (dynamic for API and
\* navigation, offline-packs for pack downloads) holds an entry for the
\* request, the response returned is that entry, whatever the other stores
\* hold for the same URL.
C19_FallbackReadsOwnStore == [][C19_Step]_vars

-----------------------------------------------------------------------------
(* C20: which handlers reject                                                *)

\* the API and the navigation handler answer with a response; the API handler
\* answers 503 JSON when its fetch has failed and no store holds the request
AlwaysResolve(t) ==
    /\ t.handler \in {"api", "nav"} => reply'.kind = "response"
    /\ (t.handler = "api" /\ reply'.from # "network" /\ Held(t.req.path) = {})
          => reply'.resp = OfflineJson /\ reply'.resp.status = 503

C20_StrictStep ==
    \A t \in tasks :
        Settles(t) =>
            /\ AlwaysResolve(t)
            /\ reply'.kind = "rejected" =>
                  /\ Held(t.req.path) = {}
                  /\ \/ PackRejected(t)
                     \/ StaticRejected(t) /\ t.req.destination # "image"

\* C20 as stated: the API and the navigation handler always answer with a
\* response; a handler rejects only in the offline-pack strategy and in the
\* static-asset strategy for a request that is not an image, only when its
\* fetch has failed, and only when no store holds an entry for the request.
C20_RejectsOnlyWithoutEntry == [][C20_StrictStep]_vars

C20_Step ==
    /\ \A t \in tasks :
          Settles(t) =>
              /\ AlwaysResolve(t)
              /\ reply'.kind = "rejected" =>
                    \/ PackRejected(t) /\ Held(t.req.path) = {}
                    \/ StaticRejected(t) /\ t.req.destination # "image"
    /\ \A t \in tasks' \ tasks :
          t.handler = "static" => Held(t.req.path) = {}

\* C20: the API and the navigation handler always answer with a response (the
\* API handler with the 503 JSON when its fetch has failed and no store holds
\* the request); a handler rejects only when its fetch has failed, and only in
\* the offline-pack strategy when no store holds the request at that moment,
\* or in the static-asset strategy for a request that is not an image, whose
\* lookup at the start of the handler found no entry in any store.
C20_RejectsOnlyAfterMiss == [][C20_Step]_vars

\* the static-asset handler has rejected a request for which a store holds an
\* entry by now: the entry was stored while the fetch was under way
C20_Witness ==
    /\ reply.kind = "rejected"
    /\ reply.handler = "static"
    /\ Held(reply.url) # {}

-----------------------------------------------------------------------------
(* C21: the static-asset strategy after a cache miss                         *)

C21_Step ==
    \A t \in tasks :
        (t.handler = "static" /\ Settles(t)) =>
            /\ \A response \in NetResponses :
                  (Ok(response) /\ SettlesFromNetwork(t, response)) =>
                      /\ reply'.kind = "response"
                      /\ DYNAMIC_CACHE \in Range(caches')
                      /\ [cache |-> DYNAMIC_CACHE, url |-> t.req.path,
                          resp |-> response, id |-> t.id] \in writes'
            /\ reply'.from # "network" =>
                  /\ IF t.req.destination = "image"
                     THEN /\ reply'.kind = "response"
                          /\ reply'.from = "synth"
                          /\ reply'.resp = Placeholder
                          /\ reply'.resp.ctype = "image/svg+xml"
                     ELSE reply'.kind = "rejected"
                  /\ UNCHANGED <<caches, entries, writes>>

\* C21: a static-asset request that missed the cache and whose fetch gives an
\* HTTP-ok response is answered with that response, which is put in the
\* dynamic store; when the fetch fails the answer is the inline SVG
\* placeholder exactly when the destination is image, and a rejection
\* otherwise, with no store written in either case.
C21_StaticMissFallback == [][C21_Step]_vars

\* an image whose fetch failed got the placeholder, with the dynamic store
\* holding the script an earlier request fetched
C21_Witness ==
    /\ reply.handler = "static"
    /\ reply.resp = Placeholder
    /\ DYNAMIC_CACHE \in Range(caches)
    /\ entries[DYNAMIC_CACHE][Script.path] # NoEntry

-----------------------------------------------------------------------------
(* C22: the manual API against the event path                                *)

\* what an agent_action event carrying the agent of the action, and neither
\* an action id nor a trace id, makes of the present state
ByAgentActionEvent(action) ==
    LET newAction == NewEventAction(Undefined, action.agent) IN
    [currentTrace |-> AppendAction(currentTrace, newAction, Undefined),
     recentActions |-> PushRecent(newAction, recentActions),
     isTraceVisible |-> TRUE]

\* what a trace_complete event carrying the summary, and no duration_ms,
\* makes of the present state
ByTraceCompleteEvent(summary) ==
    LET completed == CompletedByEvent(currentTrace, summary, Undefined) IN
    [currentTrace |-> completed, allTraces |-> Archive(completed, allTraces)]

\* the same with total_duration_ms as the trace had it
ByTraceCompleteEventKeepingDuration(summary) ==
    LET completed ==
          [CompletedByEvent(currentTrace, summary, Undefined)
              EXCEPT !.total_duration_ms = currentTrace.total_duration_ms] IN
    [currentTrace |-> completed, allTraces |-> Archive(completed, allTraces)]

C22_AnyStep ==
    /\ \A action \in ManualActions :
          AddAction(action) =>
              [currentTrace |-> currentTrace', recentActions |-> recentActions',
               isTraceVisible |-> isTraceVisible'] = ByAgentActionEvent(action)
    /\ \A summary \in ManualSummaries :
          (CompleteTrace(summary) /\ currentTrace # Null) =>
              [currentTrace |-> currentTrace', allTraces |-> allTraces']
                  = ByTraceCompleteEvent(summary)

\* C22 as stated: addAction leaves currentTrace, recentActions and
\* isTraceVisible as an agent_action event with the same fields does, the
\* status of the new action included, and completeTrace(summary) leaves
\* currentTrace and allTraces as a trace_complete event with that summary does.
C22_ManualEqualsEvent == [][C22_AnyStep]_vars

C22_Step ==
    /\ \A action \in ManualActions :
          (AddAction(action) /\ action.status = "running"
           /\ action.output = Undefined /\ action.duration_ms = Undefined) =>
              [currentTrace |-> currentTrace', recentActions |-> recentActions',
               isTraceVisible |-> isTraceVisible'] = ByAgentActionEvent(action)
    /\ \A action \in ManualActions :
          AddAction(action) =>
              currentTrace'.actions[Len(currentTrace'.actions)].status
                  = action.status
    /\ \A summary \in ManualSummaries :
          (CompleteTrace(summary) /\ currentTrace # Null) =>
              [currentTrace |-> currentTrace', allTraces |-> allTraces']
                  = ByTraceCompleteEventKeepingDuration(summary)

\* C22: addAction called with status running leaves currentTrace,
\* recentActions and isTraceVisible as an agent_action event with the same
\* agent does; the status of the new action is the one the caller gave, where
\* the event always gives running.  completeTrace(summary) leaves currentTrace
\* and allTraces as a trace_complete event with that summary does, except for
\* total_duration_ms, which completeTrace leaves as it was and the event
\* overwrites.
C22_ManualEqualsEventForRunning == [][C22_Step]_vars

\* completeTrace has completed again a trace that an event had completed with
\* a duration: the duration is still there
C22_Witness ==
    /\ last.op = "completeTrace"
    /\ currentTrace # Null
    /\ currentTrace.status = "completed"
    /\ currentTrace.total_duration_ms # Undefined
    /\ Len(currentTrace.actions) > 0

-----------------------------------------------------------------------------
(* C23: CLEAR_CACHE                                                          *)

C23_ClearStep ==
    \A name \in ClearMessages :
        ClearCache(name) =>
            IF Truthy(name)
            THEN /\ caches' = Without(caches, {name})
                 /\ Range(caches') = Range(caches) \ {name}
                 /\ \A n \in Range(caches') : entries'[n] = entries[n]
                 /\ name \notin Range(caches) =>
                       /\ caches' = caches
                       /\ entries' = entries
                       /\ writes' = writes
                       /\ tasks' = tasks
            ELSE caches' = <<>>

\* C23: CLEAR_CACHE with a name deletes that store and no other, every other
\* store keeping its place and its entries; with a name no store has it
\* changes nothing; without a name it deletes every store there is.
C23_ClearCacheDeletesExactly == [][C23_ClearStep]_vars

\* the core store has been cleared by name: the offline-packs store left by
\* the earlier session is still there with its entry
C23_Witness ==
    /\ swState = "activated"
    /\ CACHE_NAME \notin Range(caches)
    /\ OFFLINE_PACKS_CACHE \in Range(caches)
    /\ entries[OFFLINE_PACKS_CACHE][<<"/">>] = NetOk("v2")

-----------------------------------------------------------------------------
(* C24: CACHE_CONTENT                                                        *)

\* the entries other than the one of url in the dynamic store are as before
OnlyDynamicEntry(url) ==
    \A n \in StoreNames, u \in Urls :
        (n # DYNAMIC_CACHE \/ u # url) => entries'[n][u] = entries[n][u]

\* the call goes on to the next url of its list, or ends with the list
GoesOnOrEnds(t) ==
    IF t.rest = <<>>
    THEN \A t2 \in tasks' : t2.id # t.id
    ELSE \E t2 \in tasks' :
            /\ t2.id = t.id
            /\ t2.req.path = Head(t.rest)
            /\ Len(t2.rest) < Len(t.rest)

\* a message without a list of urls changes no store and starts nothing
NoListNoChange ==
    \A msg \in ContentMessages :
        (CacheContent(msg) /\ NoUrlList(msg)) =>
            UNCHANGED <<caches, entries, writes, tasks, netCalls>>

\* a url whose fetch fails, or gives a response that is not ok, stores nothing
\* and the call goes on
FailureStoresNothing ==
    \A t \in tasks :
        /\ ContentRejected(t) => entries' = entries /\ caches' = caches /\ GoesOnOrEnds(t)
        /\ \A response \in NetResponses :
              (ContentResolved(t, response) /\ ~ Ok(response)) =>
                  entries' = entries /\ caches' = caches /\ GoesOnOrEnds(t)

C24_AnyStep ==
    /\ NoListNoChange
    /\ FailureStoresNothing
    /\ \A t \in tasks, response \in NetResponses :
          (ContentResolved(t, response) /\ Ok(response)) =>
              /\ DYNAMIC_CACHE \in Range(caches')
              /\ entries'[DYNAMIC_CACHE][t.req.path] = response
              /\ OnlyDynamicEntry(t.req.path)
              /\ GoesOnOrEnds(t)

\* C24 as stated: every url of the list whose fetch gives an HTTP-ok response
\* is stored in the dynamic store, whatever happened to the urls before it; a
\* url that fails stores nothing and the call goes on; the call ends with its
\* list; a payload that is absent or no list changes no store.
C24_EveryOkUrlStored == [][C24_AnyStep]_vars

C24_Step ==
    /\ NoListNoChange
    /\ FailureStoresNothing
    /\ \A t \in tasks, response \in NetResponses :
          (ContentResolved(t, response) /\ Ok(response)) =>
              /\ t.handle =>
                    /\ DYNAMIC_CACHE \in Range(caches')
                    /\ entries'[DYNAMIC_CACHE][t.req.path] = response
              /\ ~ t.handle => entries' = entries
              /\ OnlyDynamicEntry(t.req.path)
              /\ GoesOnOrEnds(t)
    /\ \A t \in tasks :
          (t.handler = "content" /\ t.handle) => DYNAMIC_CACHE \in Range(caches)
    /\ \A t \in tasks :
          (t.handler = "content" /\ t.handle /\ t \notin tasks'
           /\ \E t2 \in tasks' : t2.id = t.id /\ ~ t2.handle)
          => \E name \in {DYNAMIC_CACHE, Undefined} : ClearCache(name)

\* C24: every url of the list whose fetch gives an HTTP-ok response is stored
\* in the dynamic store, whatever happened to the urls before it, as long as
\* no CLEAR_CACHE has deleted the dynamic store since the call opened it:
\* after that the call writes to the deleted store and nothing it fetches is
\* stored.  A url that fails stores nothing and the call goes on; the call
\* ends with its list; a payload that is absent or no list changes no store.
C24_OkUrlStoredUnlessCleared == [][C24_Step]_vars

\* the call was given two urls: the first stored nothing (its fetch failed or
\* gave a response that is not ok), the second is stored in the dynamic store,
\* and the call has ended
C24_Witness ==
    /\ nReq = 1
    /\ netCalls = 2
    /\ tasks = {}
    /\ DYNAMIC_CACHE \in Range(caches)
    /\ entries[DYNAMIC_CACHE][ApiChat.path] = NoEntry
    /\ entries[DYNAMIC_CACHE][Script.path] # NoEntry

-----------------------------------------------------------------------------
(* C25: a completed trace and its actions                                    *)

\* the handlers that add an action or patch one
ActionOps ==
    {"action_start", "action_update", "action_completed", "action_error",
     "addAction", "updateAction"}

C25_Step ==
    (/\ currentTrace # Null
     /\ currentTrace.status = "completed"
     /\ nEvents' = nEvents + 1
     /\ last'.op \in ActionOps)
    => /\ currentTrace' # Null
       /\ currentTrace'.actions = currentTrace.actions

\* C25: once currentTrace is completed, no action-start, action_update,
\* action_completed or action_error event and no addAction or updateAction
\* call changes its list of actions.
C25_CompletedTraceFrozen == [][C25_Step]_vars

-----------------------------------------------------------------------------
(* C26: current_agent                                                        *)

\* C26: whenever currentTrace is completed its current_agent is unset, and
\* whenever it is running with a list of actions that is not empty its
\* current_agent is the agent of the last action of the list.
C26_CurrentAgentFollowsLastAction ==
    currentTrace # Null =>
        /\ currentTrace.status = "completed" =>
              currentTrace.current_agent = Undefined
        /\ (currentTrace.status = "running" /\ Len(currentTrace.actions) > 0) =>
              currentTrace.current_agent
                  = currentTrace.actions[Len(currentTrace.actions)].agent

-----------------------------------------------------------------------------
(* C27: action_completed against action_update                               *)

\* what an action_update event with status "completed" makes of a list
ByUpdateCompleted(actions, id, out, dur) ==
    LET P(a) == PatchUpdate(a, id, "completed", out, dur) IN MapSeq(actions, P)

C27_Step ==
    \A id \in SrvActionIds \cup KnownActionIds, d \in EventPayloads :
        EvActionCompleted(id, d.output, d.duration_ms) =>
            /\ currentTrace # Null =>
                  currentTrace' =
                      [currentTrace EXCEPT !.actions =
                          ByUpdateCompleted(@, id, d.output, d.duration_ms)]
            /\ recentActions' =
                  ByUpdateCompleted(recentActions, id, d.output, d.duration_ms)

\* C27: an action_completed event leaves currentTrace and recentActions as an
\* action_update event with the same action_id, output and duration_ms and
\* status "completed" would.
C27_CompletedEqualsUpdate == [][C27_Step]_vars

-----------------------------------------------------------------------------
(* C28: what action_update patches                                           *)

\* the status an action_update event with status st is stated to give
StatedStatus(st) ==
    CASE st = "streaming" -> "running"
      [] st = "completed" -> "completed"
      [] st = "error" -> "error"
      [] OTHER -> "running"

\* the list after is the list before with the action of that id patched by
\* what the event carries, and nothing else changed
PatchedOnlyWhatIsCarried(before, after, id, st, d) ==
    /\ Len(after) = Len(before)
    /\ \A k \in 1..Len(before) :
          IF before[k].id = id
          THEN /\ after[k].status = StatedStatus(st)
               /\ d.output = Undefined => after[k].output = before[k].output
               /\ d.duration_ms = Undefined =>
                     after[k].duration_ms = before[k].duration_ms
               /\ after[k].id = before[k].id
               /\ after[k].agent = before[k].agent
          ELSE after[k] = before[k]

C28_Step ==
    \A id \in SrvActionIds \cup KnownActionIds, st \in EventStatuses,
       d \in EventPayloads :
        EvActionUpdate(id, st, d.output, d.duration_ms) =>
            /\ currentTrace # Null =>
                  /\ currentTrace' # Null
                  /\ PatchedOnlyWhatIsCarried(currentTrace.actions,
                         currentTrace'.actions, id, st, d)
            /\ PatchedOnlyWhatIsCarried(recentActions, recentActions', id, st, d)
            /\ id \notin KnownActionIds =>
                  currentTrace' = currentTrace /\ recentActions' = recentActions

\* C28: an action_update event sets the status of the action with its
\* action_id (streaming to running, completed to completed, error to error,
\* anything else to running); without an output it leaves the output of the
\* action as it was, without a duration_ms it leaves the duration_ms as it
\* was; every other action is unchanged, and an action_id no action has
\* changes nothing.
C28_UpdatePatchesOnlyCarried == [][C28_Step]_vars

-----------------------------------------------------------------------------
(* C29: trace_start / trace_started                                          *)

C29_Step ==
    \A type \in TraceStartTypes, traceId \in EventTraceIds :
        EvTraceStart(type, traceId) =>
            /\ currentTrace' # Null
            /\ currentTrace'.trace_id = traceId
            /\ currentTrace'.status = "running"
            /\ currentTrace'.actions = <<>>
            /\ currentTrace'.current_agent = Undefined
            /\ currentTrace'.summary = Undefined
            /\ recentActions' = recentActions
            /\ allTraces' = allTraces

\* C29: a trace_start or trace_started event makes currentTrace a running
\* trace without actions, whatever currentTrace was before, and leaves
\* recentActions and allTraces as they were.
C29_TraceStartReplaces == [][C29_Step]_vars

\* a trace that was running with an action has been replaced: the new trace
\* has no action and recentActions still has the action of the old one
C29_Witness ==
    /\ last.op = "trace_start"
    /\ currentTrace # Null
    /\ currentTrace.actions = <<>>
    /\ Len(recentActions) > 0
    /\ allTraces = <<>>

-----------------------------------------------------------------------------
(* C30: clearTraces                                                          *)

C30_Step ==
    ClearTraces =>
        /\ allTraces' = <<>>
        /\ recentActions' = <<>>
        /\ currentTrace' = currentTrace
        /\ isConnected' = isConnected
        /\ isTraceVisible' = isTraceVisible
        /\ isMinimized' = isMinimized

\* C30: clearTraces empties allTraces and recentActions and leaves
\* currentTrace, isConnected, isTraceVisible and isMinimized as they were.
C30_ClearTracesFrame == [][C30_Step]_vars

\* clearTraces was called on a connected provider with a completed trace in
\* view: the trace is still there, the archive and the recent actions are not
C30_Witness ==
    /\ last.op = "clearTraces"
    /\ isConnected
    /\ isTraceVisible
    /\ currentTrace # Null
    /\ currentTrace.status = "completed"
    /\ Len(currentTrace.actions) > 0
    /\ allTraces = <<>>
    /\ recentActions = <<>>

-----------------------------------------------------------------------------
(* C31: statuses and the local enums                                         *)

\* C31: in every state the status of currentTrace is running, completed or
\* error, and the status of every action of currentTrace and of recentActions
\* is pending, running, completed or error, init snapshots in the vocabulary
\* of the backend (active, started) included.
C31_StatusesInEnums ==
    /\ currentTrace # Null =>
          /\ currentTrace.status \in TraceStatuses
          /\ \A k \in 1..Len(currentTrace.actions) :
                currentTrace.actions[k].status \in ActionStatuses
    /\ \A k \in 1..Len(recentActions) :
          recentActions[k].status \in ActionStatuses

-----------------------------------------------------------------------------
(* C32: where the entries of the stores come from and how they go            *)

\* an HTTP-ok response of the network
FromNetworkOk(resp) == resp \in NetResponses /\ Ok(resp)

C32_Step ==
    \A n \in StoreNames, u \in Urls :
        (entries[n][u] # NoEntry /\ entries'[n][u] = NoEntry) =>
            /\ n \notin Range(caches')
            /\ \/ \E name \in ClearMessages : ClearCache(name)
               \/ swState = "installed" /\ swState' = "activated"

\* C32: in every state every entry of the dynamic store and of the
\* offline-packs store is an HTTP-ok response of the network; an entry is
\* lost only with its whole store, deleted by CLEAR_CACHE or by activation.
C32_EntriesOkAndOnlyBulkDeleted ==
    /\ [](\A n \in {DYNAMIC_CACHE, OFFLINE_PACKS_CACHE}, u \in Urls :
            entries[n][u] # NoEntry => FromNetworkOk(entries[n][u]))
    /\ [][C32_Step]_vars

\* activation has purged a store of the earlier version; the offline-packs
\* store holds the pack that was downloaded and the dynamic store an entry
C32_Witness ==
    /\ swState = "activated"
    /\ purged # {}
    /\ OFFLINE_PACKS_CACHE \in Range(caches)
    /\ entries[OFFLINE_PACKS_CACHE][PackDownload.path] # NoEntry
    /\ DYNAMIC_CACHE \in Range(caches)
    /\ entries[DYNAMIC_CACHE][<<"/">>] # NoEntry

-----------------------------------------------------------------------------
(* C33: what a background refresh changes for the next request               *)

\* a refresh of url has been written to the dynamic store and no fetch or
\* write for url is under way
Refreshed(url) ==
    /\ DYNAMIC_CACHE \in Range(caches)
    /\ entries[DYNAMIC_CACHE][url] # NoEntry
    /\ \A w \in writes : w.url # url
    /\ \A t \in bg \cup tasks : t.req.path # url

C33_Step ==
    \A r \in Requests :
        (Classify(r) = "static" /\ Refreshed(r.path) /\ OnFetch(r)) =>
            /\ reply'.id = nReq + 1
            /\ reply'.from = "cache"
            /\ reply'.resp = entries[DYNAMIC_CACHE][r.path]

\* C33: once the background refresh of a static asset has fetched an HTTP-ok
\* response and its write to the dynamic store is complete, the next request
\* for the asset is answered with that response, for the assets of the core
\* manifest as for the others.
C33_NextRequestSeesRefresh == [][C33_Step]_vars

-----------------------------------------------------------------------------
(* C34: two writes for the same url                                          *)

C34_Step ==
    /\ \A w \in writes :
          PutCompletes(w) =>
              /\ w.cache \in Range(caches')
              /\ entries'[w.cache][w.url] = w.resp
              /\ \A n \in StoreNames, u \in Urls :
                    (n # w.cache \/ u # w.url) => entries'[n][u] = entries[n][u]
    /\ \A n \in StoreNames, u \in Urls :
          entries[n][u] # NoEntry => entries'[n][u] # NoEntry

\* C34: when the puts of two requests for the same url are under way, each
\* put that completes makes its response the entry of the store for the url,
\* so the entry is the response of the put that completed last; no step
\* leaves the store without an entry it had.
C34_LastWriterWins == [][C34_Step]_vars

\* two requests for the script were both answered from the network, the
\* second with v2; the put of the first completed last, and the entry is v1
C34_Witness ==
    /\ nReq = 2
    /\ tasks = {}
    /\ writes = {}
    /\ reply.id = 2
    /\ reply.url = Script.path
    /\ reply.from = "network"
    /\ reply.resp = NetOk("v2")
    /\ entries[DYNAMIC_CACHE][Script.path] = NetOk("v1")

-----------------------------------------------------------------------------
(* The page component: update and install prompt *)

\* C35: whenever a step initiates the page reload, the page has already
\* posted the SKIP_WAITING message to the waiting worker.
C35_PostedBeforeReload ==
    [][(~pwa.reloading /\ pwa'.reloading) => pwa.posted > 0]_vars

\* C36: once the "don't show again" flag is in localStorage, no step makes
\* showInstallPrompt true.
C36_NeverShownAgain ==
    [][pwa.dontShow => ~(~pwa.showInstallPrompt /\ pwa'.showInstallPrompt)]_vars

\* C37: after the cleanup of the effect has run, no step makes a
\* connectWebSocket call and no socket is created.
C37_NoAttemptAfterTeardown ==
    [][~mounted => (attempts' = attempts /\ Len(socks') = Len(socks))]_vars

-----------------------------------------------------------------------------
(* The service worker: the pack notice, and responses that are not ok *)

\* C38: whenever OFFLINE_PACK_DOWNLOADED for a url is posted to the clients,
\* the offline-packs store exists and holds an entry for that url.
C38_StoredBeforeNotice ==
    [][\A m \in outbox :
          Broadcast(m) => /\ OFFLINE_PACKS_CACHE \in Range(caches)
                          /\ entries[OFFLINE_PACKS_CACHE][m.url] # NoEntry]_vars

-----------------------------------------------------------------------------
(* The reducer: the archive *)

\* C39: in every state the entries of allTraces carry pairwise different
\* trace ids.
C39_ArchiveIdsDistinct ==
    \A i, j \in 1..Len(allTraces) :
        allTraces[i].trace_id = allTraces[j].trace_id => i = j

NetworkFirst == {"api", "nav", "pack"}

C40_Step ==
    /\ \A t \in tasks, response \in NetResponses :
          (/\ ~Ok(response)
           /\ \/ ApiResolved(t, response)
              \/ NavResolved(t, response)
              \/ PackResolved(t, response))
          => /\ reply'.id = t.id
             /\ reply'.kind = "response"
             /\ reply'.from = "network"
             /\ reply'.resp = response
             /\ UNCHANGED <<caches, entries, writes, outbox, inbox>>
    /\ \A t \in tasks :
          (/\ t.handler \in NetworkFirst
           /\ t \notin tasks'
           /\ reply'.from # "network")
          => ApiRejected(t) \/ NavRejected(t) \/ PackRejected(t)

\* C40: a network-first handler (API, navigation, offline pack) whose fetch
\* resolved with a response that is not ok returns that response, and the
\* step changes no store, starts no put and queues or posts no message; a
\* network-first handler answers with anything but the network's response
\* only in the step in which its fetch rejects.
C40_NotOkPassedThrough == [][C40_Step]_vars

\* the second request for the pack was answered 500 by the network and the
\* handler returned the 500, although the offline-packs store holds the
\* pack from the first request
C40_Witness ==
    /\ nReq = 2
    /\ tasks = {}
    /\ writes = {}
    /\ reply.id = 2
    /\ reply.handler = "pack"
    /\ reply.from = "network"
    /\ reply.resp = NetError
    /\ OFFLINE_PACKS_CACHE \in Range(caches)
    /\ entries[OFFLINE_PACKS_CACHE][PackDownload.path] = NetOk("v1")
    /\ inbox = {PackDownload.path}

=============================================================================
